---------------------------- MODULE Spec2Model ----------------------------
(***************************************************************************)
(* A model of the AgentX (RFC 2741) wire codec of agentx-rs: the byte      *)
(* order helpers (src/src/lib.rs), the encodings (src/src/encodings/*.rs)  *)
(* and the PDU header and the 18 PDU variants (src/src/pdu.rs).            *)
(*                                                                         *)
(* Bytes are naturals 0..255 and a buffer is a sequence of bytes.  A Rust  *)
(* Result is a record [st, v]: st = "ok" carries the value v, st = "err"   *)
(* is Err(InvalidData) and st = "panic" is an unwinding panic.  An         *)
(* Option is [some |-> FALSE] or [some |-> TRUE, v |-> x].                 *)
(*                                                                         *)
(* TLC evaluates integers in 32 bits, so the sample inputs keep every      *)
(* unsigned 32-bit field below 2^31; a u64 is the pair of its 32-bit       *)
(* halves [hi, lo].                                                        *)
(***************************************************************************)
EXTENDS Integers, Sequences, FiniteSets

Ok(x) == [st |-> "ok", v |-> x]
Err == [st |-> "err"]
Panic == [st |-> "panic"]

None == [some |-> FALSE]
Some(x) == [some |-> TRUE, v |-> x]

\* `a?` followed by `b` appended to the same buffer: the first failure, in
\* evaluation order, is the outcome of the whole expression.
Cat(a, b) ==
    IF a.st # "ok" THEN a
    ELSE IF b.st # "ok" THEN b
    ELSE Ok(a.v \o b.v)

\* `let x = r?; rest`: a failure of r is returned as it is, otherwise the
\* rest of the function goes on with the value of r.
Try(r, rest(_)) == IF r.st # "ok" THEN r ELSE rest(r.v)

\* b.get(n..)
get_from(b, n) ==
    IF n <= Len(b) THEN Ok(SubSeq(b, n + 1, Len(b))) ELSE Err

\* b.get(m..n)
get_range(b, m, n) ==
    IF m <= n /\ n <= Len(b) THEN Ok(SubSeq(b, m + 1, n)) ELSE Err

(***************************************************************************)
(* src/src/lib.rs: byte order helpers                                      *)
(***************************************************************************)
LittleEndian == "LittleEndian"
BigEndian == "BigEndian"
ByteOrder == {LittleEndian, BigEndian}

RECURSIVE to_le_bytes(_, _)
\* The w low-order bytes of n, least significant first (two's complement
\* for a negative n: \div rounds down and % is non-negative).
to_le_bytes(n, w) ==
    IF w = 0 THEN <<>> ELSE <<n % 256>> \o to_le_bytes(n \div 256, w - 1)

RECURSIVE Reverse(_)
Reverse(s) ==
    IF s = <<>> THEN <<>> ELSE Reverse(Tail(s)) \o <<Head(s)>>

to_be_bytes(n, w) == Reverse(to_le_bytes(n, w))

RECURSIVE from_be_bytes(_)
from_be_bytes(b) ==
    IF b = <<>> THEN 0
    ELSE from_be_bytes(SubSeq(b, 1, Len(b) - 1)) * 256 + b[Len(b)]

from_le_bytes(b) == from_be_bytes(Reverse(b))

\* i32::from_be_bytes: the sign bit weighs -2^31.
i32_from_be_bytes(b) ==
    LET low == from_be_bytes(<<b[1] % 128>> \o Tail(b))
    IN  IF b[1] >= 128 THEN (low - 2147483647) - 1 ELSE low

i32_from_le_bytes(b) == i32_from_be_bytes(Reverse(b))

u16_to_bytes(from, bo) ==
    IF bo = BigEndian THEN to_be_bytes(from, 2) ELSE to_le_bytes(from, 2)

bytes_to_u16(from, bo) ==
    Try(get_range(from, 0, 2), LAMBDA r :
    Ok(IF bo = BigEndian THEN from_be_bytes(r) ELSE from_le_bytes(r)))

\* A faulty u32_to_bytes that ignores the byte order it is given.
u32_to_bytes_unordered(from, bo) == to_le_bytes(from, 4)

u32_to_bytes(from, bo) ==
    IF bo = BigEndian THEN to_be_bytes(from, 4) ELSE to_le_bytes(from, 4)

bytes_to_u32(from, bo) ==
    Try(get_range(from, 0, 4), LAMBDA r :
    Ok(IF bo = BigEndian THEN from_be_bytes(r) ELSE from_le_bytes(r)))

\* A u64 is [hi, lo], its two 32-bit halves.
u64_to_bytes(from, bo) ==
    IF bo = BigEndian
    THEN to_be_bytes(from.hi, 4) \o to_be_bytes(from.lo, 4)
    ELSE to_le_bytes(from.lo, 4) \o to_le_bytes(from.hi, 4)

bytes_to_u64(from, bo) ==
    Try(get_range(from, 0, 8), LAMBDA r :
    Ok(IF bo = BigEndian
       THEN [hi |-> from_be_bytes(SubSeq(r, 1, 4)),
             lo |-> from_be_bytes(SubSeq(r, 5, 8))]
       ELSE [hi |-> from_le_bytes(SubSeq(r, 5, 8)),
             lo |-> from_le_bytes(SubSeq(r, 1, 4))]))

i32_to_bytes(from, bo) ==
    IF bo = BigEndian THEN to_be_bytes(from, 4) ELSE to_le_bytes(from, 4)

bytes_to_i32(from, bo) ==
    Try(get_range(from, 0, 4), LAMBDA r :
    Ok(IF bo = BigEndian THEN i32_from_be_bytes(r) ELSE i32_from_le_bytes(r)))

(***************************************************************************)
(* src/src/encodings/id.rs                                                 *)
(* An ID is [orig_n_subid, include, sub_ids].                              *)
(***************************************************************************)
U8_MAX == 255

normalize(sub_ids, prefix) ==
    (IF prefix # 0 THEN <<1, 3, 6, 1, prefix>> ELSE <<>>) \o sub_ids

ID_default == [orig_n_subid |-> 0, include |-> 0, sub_ids |-> <<>>]

\* impl TryFrom<Vec<u32>> for ID
ID_try_from(value) ==
    IF Len(value) > U8_MAX THEN Err
    ELSE Ok([orig_n_subid |-> Len(value), include |-> 0, sub_ids |-> value])

RECURSIVE subids_to_bytes(_, _)
subids_to_bytes(sub_ids, bo) ==
    IF sub_ids = <<>> THEN <<>>
    ELSE u32_to_bytes(Head(sub_ids), bo) \o subids_to_bytes(Tail(sub_ids), bo)

\* ID::to_bytes returns Vec<u8>; its expect() panics on more than 255
\* sub-identifiers.
ID_to_bytes(id, bo) ==
    IF Len(id.sub_ids) > U8_MAX THEN Panic
    ELSE Ok(<<Len(id.sub_ids), 0, id.include, 0>>
            \o subids_to_bytes(id.sub_ids, bo))

\* A faulty byte_size that reports the normalized size.
ID_byte_size_normalized(id) == 4 + 4 * Len(id.sub_ids)

ID_byte_size(id) == 4 + 4 * id.orig_n_subid

ID_from_bytes(b, bo) ==
    IF Len(b) < 4 THEN Err
    ELSE LET n_subid == b[1]
             prefix == b[2]
             include == b[3]
             rest == SubSeq(b, 5, Len(b))
         IN  IF Len(rest) < n_subid * 4 THEN Err
             ELSE LET sub_ids ==
                          [i \in 1..n_subid |->
                              bytes_to_u32(SubSeq(rest, 4 * i - 3, Len(rest)), bo).v]
                  IN  Ok([orig_n_subid |-> n_subid,
                          include |-> include,
                          sub_ids |-> normalize(sub_ids, prefix)])

\* A faulty eq that compares the include flag as well.
ID_eq_with_include(a, b) == a.sub_ids = b.sub_ids /\ a.include = b.include

\* impl PartialEq for ID: the sub-identifiers only.
ID_eq(a, b) == a.sub_ids = b.sub_ids

\* impl Hash for ID: what is fed to the Hasher, the sub-identifiers only.
ID_hash(id) == id.sub_ids

\* Vec<u32>::cmp: the first unequal pair of elements of the common prefix
\* decides; without one, the shorter sequence is Less.
vec_cmp(s, t) ==
    LET l == IF Len(s) < Len(t) THEN Len(s) ELSE Len(t)
        unequal == {i \in 1..l : s[i] # t[i]}
    IN  IF unequal # {}
        THEN LET i == CHOOSE i \in unequal : \A j \in unequal : i <= j
             IN  IF s[i] < t[i] THEN "Less" ELSE "Greater"
        ELSE IF Len(s) < Len(t) THEN "Less"
        ELSE IF Len(s) > Len(t) THEN "Greater"
        ELSE "Equal"

\* impl Ord for ID
ID_cmp(a, b) == vec_cmp(a.sub_ids, b.sub_ids)

\* impl PartialOrd for ID
ID_partial_cmp(a, b) == Some(ID_cmp(a, b))

(***************************************************************************)
(* src/src/encodings/octetstring.rs                                        *)
(* An OctetString is the byte sequence of its String (valid UTF-8).        *)
(***************************************************************************)
IsCont(x) == x >= 128 /\ x <= 191

RECURSIVE from_utf8(_)
\* String::from_utf8(b).is_ok(): b is well-formed UTF-8.
from_utf8(b) ==
    IF b = <<>> THEN TRUE
    ELSE LET c == b[1]
             n == Len(b)
         IN  IF c < 128 THEN from_utf8(Tail(b))
             ELSE IF c >= 194 /\ c <= 223
             THEN n >= 2 /\ IsCont(b[2]) /\ from_utf8(SubSeq(b, 3, n))
             ELSE IF c >= 224 /\ c <= 239
             THEN /\ n >= 3
                  /\ IsCont(b[2]) /\ IsCont(b[3])
                  /\ (c = 224 => b[2] >= 160)
                  /\ (c = 237 => b[2] <= 159)
                  /\ from_utf8(SubSeq(b, 4, n))
             ELSE IF c >= 240 /\ c <= 244
             THEN /\ n >= 4
                  /\ IsCont(b[2]) /\ IsCont(b[3]) /\ IsCont(b[4])
                  /\ (c = 240 => b[2] >= 144)
                  /\ (c = 244 => b[2] <= 143)
                  /\ from_utf8(SubSeq(b, 5, n))
             ELSE FALSE

\* A faulty padding that appends nothing.
pad4_none(content) == content

RECURSIVE pad4(_)
\* while content.len() % 4 != 0 { content.push(0) }
pad4(content) ==
    IF Len(content) % 4 = 0 THEN content ELSE pad4(content \o <<0>>)

\* u32::try_from(orig_len) fails only for a string of 4 GiB or more, which
\* no sample reaches.
OctetString_to_bytes(s, bo) ==
    LET orig_len == Len(s)
    IN  Ok(u32_to_bytes(orig_len, bo) \o pad4(s))

RECURSIVE round_up4(_)
\* while octets_len % 4 != 0 { octets_len += 1 }
round_up4(n) == IF n % 4 = 0 THEN n ELSE round_up4(n + 1)

\* A faulty byte_size that leaves the padding out.
OctetString_byte_size_unpadded(s) == 4 + Len(s)

OctetString_byte_size(s) == 4 + round_up4(Len(s))

\* A faulty from_bytes that takes the content bytes unvalidated.
OctetString_from_bytes_unchecked(b, bo) ==
    IF Len(b) < 4 THEN Err
    ELSE Try(bytes_to_u32(b, bo), LAMBDA length :
         IF length = 0 THEN Ok(<<>>)
         ELSE get_range(b, 4, 4 + length))

OctetString_from_bytes(b, bo) ==
    IF Len(b) < 4 THEN Err
    ELSE Try(bytes_to_u32(b, bo), LAMBDA length :
         IF length = 0 THEN Ok(<<>>)
         ELSE Try(get_range(b, 4, 4 + length), LAMBDA c :
              IF ~from_utf8(c) THEN Err ELSE Ok(c)))

(***************************************************************************)
(* src/src/encodings/context.rs: Context(OctetString)                      *)
(***************************************************************************)
Context_to_bytes(c, bo) == OctetString_to_bytes(c, bo)

Context_byte_size(c) == OctetString_byte_size(c)

Context_from_bytes(b, bo) == OctetString_from_bytes(b, bo)

(***************************************************************************)
(* src/src/encodings/searchrange.rs                                        *)
(* A SearchRange is [start, end]; a SearchRangeList is a sequence.         *)
(***************************************************************************)
SearchRange_new(start, end) == [start |-> start, end |-> end]

SearchRange_to_bytes(sr, bo) ==
    Cat(ID_to_bytes(sr.start, bo), ID_to_bytes(sr.end, bo))

SearchRange_from_bytes(b, bo) ==
    Try(ID_from_bytes(b, bo), LAMBDA start :
    Try(get_from(b, ID_byte_size(start)), LAMBDA b2 :
    Try(ID_from_bytes(b2, bo), LAMBDA end :
    Ok([start |-> start, end |-> end]))))

SearchRange_byte_size(sr) == ID_byte_size(sr.start) + ID_byte_size(sr.end)

\* derived PartialEq
SearchRange_eq(a, b) == ID_eq(a.start, b.start) /\ ID_eq(a.end, b.end)

RECURSIVE SearchRangeList_to_bytes(_, _)
SearchRangeList_to_bytes(l, bo) ==
    IF l = <<>> THEN Ok(<<>>)
    ELSE Cat(SearchRange_to_bytes(Head(l), bo),
             SearchRangeList_to_bytes(Tail(l), bo))

RECURSIVE srl_loop(_, _, _)
\* The while loop of SearchRangeList::from_bytes, ranges decoded so far.
srl_loop(b, bo, ranges) ==
    IF b = <<>> THEN Ok(ranges)
    ELSE Try(SearchRange_from_bytes(b, bo), LAMBDA sr :
         Try(get_from(b, SearchRange_byte_size(sr)), LAMBDA b2 :
         srl_loop(b2, bo, Append(ranges, sr))))

SearchRangeList_from_bytes(b, bo) == srl_loop(b, bo, <<>>)

SearchRangeList_eq(a, b) ==
    Len(a) = Len(b) /\ \A i \in 1..Len(a) : SearchRange_eq(a[i], b[i])

(***************************************************************************)
(* src/src/encodings/value.rs                                              *)
(* A Value is [tag, val] (val is 0 for the four variants without data); a  *)
(* VarBind is [name, data]; a VarBindList is a sequence.                   *)
(***************************************************************************)
Value(tag, val) == [tag |-> tag, val |-> val]

EmptyTags == {"Null", "NoSuchObject", "NoSuchInstance", "EndOfMibView"}
OctetTags == {"OctetString", "IpAddress", "Opaque"}

Value_byte_size(d) ==
    4 + CASE d.tag = "Integer" -> 4
          [] d.tag = "OctetString" -> OctetString_byte_size(d.val)
          [] d.tag = "Null" -> 0
          [] d.tag = "ObjectIdentifier" -> ID_byte_size(d.val)
          [] d.tag = "IpAddress" -> OctetString_byte_size(d.val)
          [] d.tag = "Counter32" -> 4
          [] d.tag = "Gauge32" -> 4
          [] d.tag = "TimeTicks" -> 4
          [] d.tag = "Opaque" -> OctetString_byte_size(d.val)
          [] d.tag = "Counter64" -> 8
          [] d.tag = "NoSuchObject" -> 0
          [] d.tag = "NoSuchInstance" -> 0
          [] d.tag = "EndOfMibView" -> 0

\* derived PartialEq of Value (an ObjectIdentifier compares as ID does)
Value_eq(a, b) ==
    /\ a.tag = b.tag
    /\ CASE a.tag \in EmptyTags -> TRUE
         [] a.tag = "ObjectIdentifier" -> ID_eq(a.val, b.val)
         [] OTHER -> a.val = b.val

VarBind_new(name, data) == [name |-> name, data |-> data]

\* The (ty, data) pair matched in VarBind::to_bytes.
varbind_ty(d) ==
    CASE d.tag = "Integer" -> 2
      [] d.tag = "OctetString" -> 4
      [] d.tag = "Null" -> 5
      [] d.tag = "ObjectIdentifier" -> 6
      [] d.tag = "IpAddress" -> 64
      [] d.tag = "Counter32" -> 65
      [] d.tag = "Gauge32" -> 66
      [] d.tag = "TimeTicks" -> 67
      [] d.tag = "Opaque" -> 68
      [] d.tag = "Counter64" -> 70
      [] d.tag = "NoSuchObject" -> 128
      [] d.tag = "NoSuchInstance" -> 129
      [] d.tag = "EndOfMibView" -> 130

varbind_data(d, bo) ==
    CASE d.tag = "Integer" -> Ok(i32_to_bytes(d.val, bo))
      [] d.tag = "OctetString" -> OctetString_to_bytes(d.val, bo)
      [] d.tag = "Null" -> Ok(<<>>)
      [] d.tag = "ObjectIdentifier" -> ID_to_bytes(d.val, bo)
      [] d.tag = "IpAddress" -> OctetString_to_bytes(d.val, bo)
      [] d.tag = "Counter32" -> Ok(u32_to_bytes(d.val, bo))
      [] d.tag = "Gauge32" -> Ok(u32_to_bytes(d.val, bo))
      [] d.tag = "TimeTicks" -> Ok(i32_to_bytes(d.val, bo))
      [] d.tag = "Opaque" -> OctetString_to_bytes(d.val, bo)
      [] d.tag = "Counter64" -> Ok(u64_to_bytes(d.val, bo))
      [] d.tag = "NoSuchObject" -> Ok(<<>>)
      [] d.tag = "NoSuchInstance" -> Ok(<<>>)
      [] d.tag = "EndOfMibView" -> Ok(<<>>)

\* A faulty to_bytes that writes the name ahead of the type.
VarBind_to_bytes_name_first(vb, bo) ==
    Try(varbind_data(vb.data, bo), LAMBDA data :
    Cat(Cat(ID_to_bytes(vb.name, bo),
            Ok(u16_to_bytes(varbind_ty(vb.data), bo) \o <<0, 0>>)),
        Ok(data)))

VarBind_to_bytes(vb, bo) ==
    Try(varbind_data(vb.data, bo), LAMBDA data :
    Cat(Cat(Ok(u16_to_bytes(varbind_ty(vb.data), bo) \o <<0, 0>>),
            ID_to_bytes(vb.name, bo)),
        Ok(data)))

VarBind_byte_size(vb) == ID_byte_size(vb.name) + Value_byte_size(vb.data)

\* A faulty match that takes every type code for Null.
varbind_value_defaulting(ty, b, bo) == Ok(Value("Null", 0))

\* The match on ty in VarBind::from_bytes, b the bytes after the name.
varbind_value(ty, b, bo) ==
    LET tagged(tag, r) == Try(r, LAMBDA v : Ok(Value(tag, v)))
    IN  CASE ty = 2 -> tagged("Integer", bytes_to_i32(b, bo))
          [] ty = 4 -> tagged("OctetString", OctetString_from_bytes(b, bo))
          [] ty = 5 -> Ok(Value("Null", 0))
          [] ty = 6 -> tagged("ObjectIdentifier", ID_from_bytes(b, bo))
          [] ty = 64 -> tagged("IpAddress", OctetString_from_bytes(b, bo))
          [] ty = 65 -> tagged("Counter32", bytes_to_u32(b, bo))
          [] ty = 66 -> tagged("Gauge32", bytes_to_u32(b, bo))
          [] ty = 67 -> tagged("TimeTicks", bytes_to_i32(b, bo))
          [] ty = 68 -> tagged("Opaque", OctetString_from_bytes(b, bo))
          [] ty = 70 -> tagged("Counter64", bytes_to_u64(b, bo))
          [] ty = 128 -> Ok(Value("NoSuchObject", 0))
          [] ty = 129 -> Ok(Value("NoSuchInstance", 0))
          [] ty = 130 -> Ok(Value("EndOfMibView", 0))
          [] OTHER -> Err

VarBind_from_bytes(b, bo) ==
    IF Len(b) < 2 THEN Err
    ELSE Try(bytes_to_u16(b, bo), LAMBDA ty :
         Try(get_from(b, 4), LAMBDA b1 :
         IF Len(b1) < 1 THEN Err
         ELSE LET n_subids == b1[1]
                  len == 4 + n_subids * 4
              IN  Try(get_range(b1, 0, len), LAMBDA sl :
                  Try(ID_from_bytes(sl, bo), LAMBDA name :
                  Try(get_from(b1, len), LAMBDA b2 :
                  Try(varbind_value(ty, b2, bo), LAMBDA data :
                  Ok([name |-> name, data |-> data])))))))

\* derived PartialEq
VarBind_eq(a, b) == ID_eq(a.name, b.name) /\ Value_eq(a.data, b.data)

RECURSIVE VarBindList_to_bytes(_, _)
VarBindList_to_bytes(l, bo) ==
    IF l = <<>> THEN Ok(<<>>)
    ELSE Cat(VarBind_to_bytes(Head(l), bo), VarBindList_to_bytes(Tail(l), bo))

RECURSIVE vbl_loop_lenient(_, _, _)
\* A faulty loop that returns the elements decoded so far when the next one
\* does not decode.
vbl_loop_lenient(b, bo, varbinds) ==
    IF b = <<>> THEN Ok(varbinds)
    ELSE LET varbind == VarBind_from_bytes(b, bo)
         IN  IF varbind.st # "ok" THEN Ok(varbinds)
             ELSE LET b2 == get_from(b, VarBind_byte_size(varbind.v))
                  IN  IF b2.st # "ok" THEN Ok(varbinds)
                      ELSE vbl_loop_lenient(b2.v, bo, Append(varbinds, varbind.v))

RECURSIVE vbl_loop(_, _, _)
\* The while loop of VarBindList::from_bytes, varbinds decoded so far.
vbl_loop(b, bo, varbinds) ==
    IF b = <<>> THEN Ok(varbinds)
    ELSE Try(VarBind_from_bytes(b, bo), LAMBDA varbind :
         Try(get_from(b, VarBind_byte_size(varbind)), LAMBDA b2 :
         vbl_loop(b2, bo, Append(varbinds, varbind))))

VarBindList_from_bytes(b, bo) == vbl_loop(b, bo, <<>>)

VarBindList_eq(a, b) ==
    Len(a) = Len(b) /\ \A i \in 1..Len(a) : VarBind_eq(a[i], b[i])

(***************************************************************************)
(* src/src/pdu.rs: Header                                                  *)
(* A Header is [version, ty, flags, session_id, transaction_id,            *)
(* packet_id, payload_length]; ty is the name of a Type variant.           *)
(***************************************************************************)
NON_DEFAULT_CONTEXT == 3
NETWORK_BYTE_ORDER == 4
HEADER_SIZE == 20

RECURSIVE bitand(_, _)
\* a & b
bitand(a, b) ==
    IF a = 0 \/ b = 0 THEN 0
    ELSE (a % 2) * (b % 2) + 2 * bitand(a \div 2, b \div 2)

RECURSIVE shl1(_)
\* 1 << n
shl1(n) == IF n = 0 THEN 1 ELSE 2 * shl1(n - 1)

is_set(flags, mask) == bitand(flags, mask) = mask

\* A faulty header_byte_order with the two arms exchanged.
header_byte_order_inverted(flags) ==
    IF is_set(flags, shl1(NETWORK_BYTE_ORDER)) THEN LittleEndian ELSE BigEndian

header_byte_order(flags) ==
    IF is_set(flags, shl1(NETWORK_BYTE_ORDER)) THEN BigEndian ELSE LittleEndian

\* The variants of Type in the order of their wire codes 1..18.
TypeNames ==
    << "Open", "Close", "Register", "Unregister", "Get", "GetNext", "GetBulk",
       "TestSet", "CommitSet", "UndoSet", "CleanupSet", "Notify", "Ping",
       "IndexAllocate", "IndexDeallocate", "AddAgentCaps", "RemoveAgentCaps",
       "Response" >>

Type_to_byte(ty) == CHOOSE i \in 1..Len(TypeNames) : TypeNames[i] = ty

\* A faulty from_byte that takes an unknown code for Response.
Type_from_byte_defaulting(b) ==
    IF b \in 1..Len(TypeNames) THEN Ok(TypeNames[b]) ELSE Ok("Response")

Type_from_byte(b) ==
    IF b \in 1..Len(TypeNames) THEN Ok(TypeNames[b]) ELSE Err

\* The variants of CloseReason in the order of their wire codes 1..6.
CloseReasonNames ==
    << "Other", "ParseError", "ProtocolError", "Timeouts", "Shutdown",
       "ByManager" >>

CloseReason_to_byte(r) ==
    CHOOSE i \in 1..Len(CloseReasonNames) : CloseReasonNames[i] = r

CloseReason_from_byte(b) ==
    IF b \in 1..Len(CloseReasonNames) THEN Ok(CloseReasonNames[b]) ELSE Err

\* The variants of ResError after NoAgentXError (code 0), in the order of
\* their wire codes 256..268.
ResErrorNames ==
    << "OpenFailed", "NotOpen", "IndexWrongType", "IndexAlreadyAllocated",
       "IndexNoneAvailable", "IndexNotAllocated", "UnsupportedContext",
       "DuplicateRegistration", "UnknownRegistration", "UnknownAgentCaps",
       "ParseError", "RequestDenied", "ProcessingError" >>

ResError_code(e) ==
    IF e = "NoAgentXError" THEN 0
    ELSE 255 + (CHOOSE i \in 1..Len(ResErrorNames) : ResErrorNames[i] = e)

ResError_to_bytes(e, bo) == u16_to_bytes(ResError_code(e), bo)

ResError_byte_size(e) == 2

ResError_from_bytes(b, bo) ==
    Try(bytes_to_u16(b, bo), LAMBDA n :
    IF n = 0 THEN Ok("NoAgentXError")
    ELSE IF n - 255 \in 1..Len(ResErrorNames) THEN Ok(ResErrorNames[n - 255])
    ELSE Err)

Header_new(ty) ==
    [version |-> 1, ty |-> ty, flags |-> 0, session_id |-> 0,
     transaction_id |-> 0, packet_id |-> 0, payload_length |-> 0]

Header_byte_order(h) == header_byte_order(h.flags)

Header_to_bytes(h) ==
    LET bo == Header_byte_order(h)
    IN  <<h.version, Type_to_byte(h.ty), h.flags, 0>>
        \o u32_to_bytes(h.session_id, bo)
        \o u32_to_bytes(h.transaction_id, bo)
        \o u32_to_bytes(h.packet_id, bo)
        \o u32_to_bytes(h.payload_length, bo)

Header_from_bytes(b) ==
    IF Len(b) < HEADER_SIZE THEN Err
    ELSE LET bo == header_byte_order(b[3])
         IN  Try(Type_from_byte(b[2]), LAMBDA ty :
             Try(bytes_to_u32(SubSeq(b, 5, Len(b)), bo), LAMBDA session_id :
             Try(bytes_to_u32(SubSeq(b, 9, Len(b)), bo), LAMBDA transaction_id :
             Try(bytes_to_u32(SubSeq(b, 13, Len(b)), bo), LAMBDA packet_id :
             Try(bytes_to_u32(SubSeq(b, 17, Len(b)), bo), LAMBDA payload_length :
             Ok([version |-> b[1],
                 ty |-> ty,
                 flags |-> b[3],
                 session_id |-> session_id,
                 transaction_id |-> transaction_id,
                 packet_id |-> packet_id,
                 payload_length |-> payload_length]))))))

Header_byte_size(h) == HEADER_SIZE

\* u32::try_from(len) fails only for a payload of 4 GiB or more, which no
\* sample reaches.
Header_set_payload_len(h, len) == Ok([h EXCEPT !.payload_length = len])

context_from_bytes(header, b) ==
    IF ~is_set(header.flags, shl1(NON_DEFAULT_CONTEXT)) THEN Ok(None)
    ELSE Try(Context_from_bytes(b, Header_byte_order(header)), LAMBDA c :
         Ok(Some(c)))

(***************************************************************************)
(* src/src/pdu.rs: the PDU variants.  X_to_bytes(p) is X::to_bytes(&mut    *)
(* self): [res |-> the Result, self |-> the PDU after the call].           *)
(* A Duration is [secs, nanos].                                            *)
(***************************************************************************)
\* Duration::new carries the whole seconds in nanos over into secs.
Duration_new(secs, nanos) ==
    [secs |-> secs + nanos \div 1000000000, nanos |-> nanos % 1000000000]

Duration_from_secs(secs) == [secs |-> secs, nanos |-> 0]

\* u8::try_from(self.timeout.as_secs())
timeout_secs(timeout) ==
    IF timeout.secs > U8_MAX THEN Err ELSE Ok(<<timeout.secs>>)

\* if let Some(c) = &self.context { payload.extend(c.0.to_bytes(&bo)?) }
context_to_payload(context, bo) ==
    IF context.some THEN OctetString_to_bytes(context.v, bo) ELSE Ok(<<>>)

\* The tail shared by the to_bytes of the variants with a payload:
\* set_payload_len(payload.len())?, then header bytes, then the payload.
\* A faulty tail that adds the payload's size to the length already there.
stamp_and_emit_accumulating(p, payload) ==
    IF payload.st # "ok" THEN [res |-> payload, self |-> p]
    ELSE LET h == Header_set_payload_len(
                      p.header, p.header.payload_length + Len(payload.v)).v
         IN  [res |-> Ok(Header_to_bytes(h) \o payload.v),
              self |-> [p EXCEPT !.header = h]]

stamp_and_emit(p, payload) ==
    IF payload.st # "ok" THEN [res |-> payload, self |-> p]
    ELSE LET h == Header_set_payload_len(p.header, Len(payload.v)).v
         IN  [res |-> Ok(Header_to_bytes(h) \o payload.v),
              self |-> [p EXCEPT !.header = h]]

\* A faulty head that takes payload_length bytes as the payload.
header_and_context_framed(b) ==
    Try(Header_from_bytes(b), LAMBDA header :
    Try(get_range(b, Header_byte_size(header),
                  Header_byte_size(header) + header.payload_length),
        LAMBDA b1 :
    Try(context_from_bytes(header, b1), LAMBDA context :
    Try(IF context.some
        THEN get_from(b1, Context_byte_size(context.v))
        ELSE Ok(b1), LAMBDA b2 :
    Ok([header |-> header, context |-> context, rest |-> b2])))))

\* The head shared by the from_bytes of the variants with a context: the
\* header, the optional context, and the bytes after them.
header_and_context(b) ==
    Try(Header_from_bytes(b), LAMBDA header :
    Try(get_from(b, Header_byte_size(header)), LAMBDA b1 :
    Try(context_from_bytes(header, b1), LAMBDA context :
    Try(IF context.some
        THEN get_from(b1, Context_byte_size(context.v))
        ELSE Ok(b1), LAMBDA b2 :
    Ok([header |-> header, context |-> context, rest |-> b2])))))

Open_to_bytes(p) ==
    LET bo == Header_byte_order(p.header)
    IN  stamp_and_emit(p,
            Cat(Cat(Cat(timeout_secs(p.timeout), Ok(<<0, 0, 0>>)),
                    ID_to_bytes(p.id, bo)),
                OctetString_to_bytes(p.descr, bo)))

Open_from_bytes(b) ==
    Try(Header_from_bytes(b), LAMBDA header :
    Try(get_from(b, Header_byte_size(header)), LAMBDA b1 :
    IF Len(b1) < 4 THEN Err
    ELSE Try(get_from(b1, 4), LAMBDA b2 :
         Try(ID_from_bytes(b2, Header_byte_order(header)), LAMBDA id :
         Try(get_from(b2, ID_byte_size(id)), LAMBDA b3 :
         Try(OctetString_from_bytes(b3, Header_byte_order(header)),
             LAMBDA descr :
         Ok([header |-> header,
             timeout |-> Duration_from_secs(b1[1]),
             id |-> id,
             descr |-> descr])))))))

Close_to_bytes(p) ==
    LET h == [p.header EXCEPT !.payload_length = 4]
    IN  [res |-> Ok(Header_to_bytes(h)
                    \o <<CloseReason_to_byte(p.reason)>> \o <<0, 0, 0>>),
         self |-> [p EXCEPT !.header = h]]

Close_from_bytes(b) ==
    Try(Header_from_bytes(b), LAMBDA header :
    Try(get_from(b, Header_byte_size(header)), LAMBDA b1 :
    IF Len(b1) < 1 THEN Err
    ELSE Try(CloseReason_from_byte(b1[1]), LAMBDA reason :
         Ok([header |-> header, reason |-> reason]))))

\* if let Some(u) = &self.upper_bound { payload.extend(u32_to_bytes(*u)) }
upper_bound_to_payload(upper_bound, bo) ==
    IF upper_bound.some THEN Ok(u32_to_bytes(upper_bound.v, bo)) ELSE Ok(<<>>)

\* let upper_bound = if range_subid != 0 { Some(bytes_to_u32(b)?) } else { None }
upper_bound_from_bytes(range_subid, b, bo) ==
    IF range_subid # 0
    THEN Try(bytes_to_u32(b, bo), LAMBDA u : Ok(Some(u)))
    ELSE Ok(None)

Register_to_bytes(p) ==
    LET bo == Header_byte_order(p.header)
    IN  stamp_and_emit(p,
            Cat(Cat(Cat(Cat(context_to_payload(p.context, bo),
                            timeout_secs(p.timeout)),
                        Ok(<<p.priority, p.range_subid, 0>>)),
                    ID_to_bytes(p.subtree, bo)),
                upper_bound_to_payload(p.upper_bound, bo)))

Register_from_bytes(b) ==
    Try(header_and_context(b), LAMBDA hc :
    IF Len(hc.rest) < 4 THEN Err
    ELSE Try(get_from(hc.rest, 4), LAMBDA b2 :
         Try(ID_from_bytes(b2, Header_byte_order(hc.header)), LAMBDA subtree :
         Try(get_from(b2, ID_byte_size(subtree)), LAMBDA b3 :
         Try(upper_bound_from_bytes(hc.rest[3], b3,
                                    Header_byte_order(hc.header)),
             LAMBDA upper_bound :
         Ok([header |-> hc.header,
             context |-> hc.context,
             timeout |-> Duration_from_secs(hc.rest[1]),
             priority |-> hc.rest[2],
             range_subid |-> hc.rest[3],
             subtree |-> subtree,
             upper_bound |-> upper_bound]))))))

Unregister_to_bytes(p) ==
    LET bo == Header_byte_order(p.header)
    IN  stamp_and_emit(p,
            Cat(Cat(Cat(context_to_payload(p.context, bo),
                        Ok(<<0, p.priority, p.range_subid, 0>>)),
                    ID_to_bytes(p.subtree, bo)),
                upper_bound_to_payload(p.upper_bound, bo)))

Unregister_from_bytes(b) ==
    Try(header_and_context(b), LAMBDA hc :
    IF Len(hc.rest) < 4 THEN Err
    ELSE Try(get_from(hc.rest, 4), LAMBDA b2 :
         Try(ID_from_bytes(b2, Header_byte_order(hc.header)), LAMBDA subtree :
         Try(get_from(b2, ID_byte_size(subtree)), LAMBDA b3 :
         Try(upper_bound_from_bytes(hc.rest[3], b3,
                                    Header_byte_order(hc.header)),
             LAMBDA upper_bound :
         Ok([header |-> hc.header,
             context |-> hc.context,
             priority |-> hc.rest[2],
             range_subid |-> hc.rest[3],
             subtree |-> subtree,
             upper_bound |-> upper_bound]))))))

get_alike_from_bytes(b) ==
    Try(header_and_context(b), LAMBDA hc :
    Try(SearchRangeList_from_bytes(hc.rest, Header_byte_order(hc.header)),
        LAMBDA sr :
    Ok([header |-> hc.header, context |-> hc.context, sr |-> sr])))

Get_to_bytes(p) ==
    LET bo == Header_byte_order(p.header)
    IN  stamp_and_emit(p,
            Cat(context_to_payload(p.context, bo),
                SearchRangeList_to_bytes(p.sr, bo)))

Get_from_bytes(b) == get_alike_from_bytes(b)

GetNext_to_bytes(p) ==
    LET bo == Header_byte_order(p.header)
    IN  stamp_and_emit(p,
            Cat(context_to_payload(p.context, bo),
                SearchRangeList_to_bytes(p.sr, bo)))

GetNext_from_bytes(b) == get_alike_from_bytes(b)

GetBulk_to_bytes(p) ==
    LET bo == Header_byte_order(p.header)
    IN  stamp_and_emit(p,
            Cat(Cat(context_to_payload(p.context, bo),
                    Ok(u16_to_bytes(p.non_repeaters, bo)
                       \o u16_to_bytes(p.max_repetitions, bo))),
                SearchRangeList_to_bytes(p.sr, bo)))

GetBulk_from_bytes(b) ==
    Try(header_and_context(b), LAMBDA hc :
    IF Len(hc.rest) < 4 THEN Err
    ELSE Try(bytes_to_u16(hc.rest, Header_byte_order(hc.header)),
             LAMBDA non_repeaters :
         Try(bytes_to_u16(SubSeq(hc.rest, 3, Len(hc.rest)),
                          Header_byte_order(hc.header)),
             LAMBDA max_repetitions :
         Try(get_from(hc.rest, 4), LAMBDA b2 :
         Try(SearchRangeList_from_bytes(b2, Header_byte_order(hc.header)),
             LAMBDA sr :
         Ok([header |-> hc.header,
             context |-> hc.context,
             non_repeaters |-> non_repeaters,
             max_repetitions |-> max_repetitions,
             sr |-> sr]))))))

testset_alike_from_bytes(b) ==
    Try(header_and_context(b), LAMBDA hc :
    Try(VarBindList_from_bytes(hc.rest, Header_byte_order(hc.header)),
        LAMBDA vb :
    Ok([header |-> hc.header, context |-> hc.context, vb |-> vb])))

TestSet_to_bytes(p) ==
    LET bo == Header_byte_order(p.header)
    IN  stamp_and_emit(p,
            Cat(context_to_payload(p.context, bo),
                VarBindList_to_bytes(p.vb, bo)))

TestSet_from_bytes(b) == testset_alike_from_bytes(b)

Notify_to_bytes(p) ==
    LET bo == Header_byte_order(p.header)
    IN  stamp_and_emit(p,
            Cat(context_to_payload(p.context, bo),
                VarBindList_to_bytes(p.vb, bo)))

Notify_from_bytes(b) == testset_alike_from_bytes(b)

IndexAllocate_to_bytes(p) ==
    LET bo == Header_byte_order(p.header)
    IN  stamp_and_emit(p,
            Cat(context_to_payload(p.context, bo),
                VarBindList_to_bytes(p.vb, bo)))

IndexAllocate_from_bytes(b) == testset_alike_from_bytes(b)

IndexDeallocate_to_bytes(p) ==
    LET bo == Header_byte_order(p.header)
    IN  stamp_and_emit(p,
            Cat(context_to_payload(p.context, bo),
                VarBindList_to_bytes(p.vb, bo)))

IndexDeallocate_from_bytes(b) == testset_alike_from_bytes(b)

\* Ok(self.header.to_bytes()): the header is emitted as it stands.
CommitSet_to_bytes(p) == [res |-> Ok(Header_to_bytes(p.header)), self |-> p]

CommitSet_from_bytes(b) ==
    Try(Header_from_bytes(b), LAMBDA header : Ok([header |-> header]))

UndoSet_to_bytes(p) == [res |-> Ok(Header_to_bytes(p.header)), self |-> p]

UndoSet_from_bytes(b) ==
    Try(Header_from_bytes(b), LAMBDA header : Ok([header |-> header]))

CleanupSet_to_bytes(p) == [res |-> Ok(Header_to_bytes(p.header)), self |-> p]

CleanupSet_from_bytes(b) ==
    Try(Header_from_bytes(b), LAMBDA header : Ok([header |-> header]))

Ping_to_bytes(p) ==
    LET bo == Header_byte_order(p.header)
    IN  stamp_and_emit(p, context_to_payload(p.context, bo))

Ping_from_bytes(b) ==
    Try(Header_from_bytes(b), LAMBDA header :
    Try(get_from(b, Header_byte_size(header)), LAMBDA b1 :
    Try(context_from_bytes(header, b1), LAMBDA context :
    Ok([header |-> header, context |-> context]))))

AddAgentCaps_to_bytes(p) ==
    LET bo == Header_byte_order(p.header)
    IN  stamp_and_emit(p,
            Cat(Cat(context_to_payload(p.context, bo), ID_to_bytes(p.id, bo)),
                OctetString_to_bytes(p.descr, bo)))

AddAgentCaps_from_bytes(b) ==
    Try(header_and_context(b), LAMBDA hc :
    Try(ID_from_bytes(hc.rest, Header_byte_order(hc.header)), LAMBDA id :
    Try(get_from(hc.rest, ID_byte_size(id)), LAMBDA b2 :
    Try(OctetString_from_bytes(b2, Header_byte_order(hc.header)),
        LAMBDA descr :
    Ok([header |-> hc.header,
        context |-> hc.context,
        id |-> id,
        descr |-> descr])))))

RemoveAgentCaps_to_bytes(p) ==
    LET bo == Header_byte_order(p.header)
    IN  stamp_and_emit(p,
            Cat(context_to_payload(p.context, bo), ID_to_bytes(p.id, bo)))

RemoveAgentCaps_from_bytes(b) ==
    Try(header_and_context(b), LAMBDA hc :
    Try(ID_from_bytes(hc.rest, Header_byte_order(hc.header)), LAMBDA id :
    Ok([header |-> hc.header, context |-> hc.context, id |-> id])))

(***************************************************************************)
(* Response.  sys_uptime travels as a u32 count of hundredths of a second. *)
(* A u32 is handled as two 16-bit limbs wherever its tenfold would leave   *)
(* the range of the integers of the model checker.                         *)
(***************************************************************************)
LIMB == 65536
CENTIS_PER_SEC == 100
NANOS_PER_CENTI == 10000000
MILLIS_PER_SEC == 1000
NANOS_PER_MILLI == 1000000
\* u32::MAX = 4294967295 = U32_MAX_CENTI_SECS * 100 + U32_MAX_CENTI_REST
U32_MAX_CENTI_SECS == 42949672
U32_MAX_CENTI_REST == 95

\* u32::try_from(self.sys_uptime.as_millis() / 10)
sys_uptime_to_u32(d) ==
    LET rest == d.nanos \div NANOS_PER_CENTI
    IN  IF d.secs > U32_MAX_CENTI_SECS
           \/ (d.secs = U32_MAX_CENTI_SECS /\ rest > U32_MAX_CENTI_REST)
        THEN Err
        ELSE Ok(d.secs * CENTIS_PER_SEC + rest)

\* sys_uptime * 10 in u32: TRUE iff the product exceeds u32::MAX
mul10_overflows(n) ==
    (n \div LIMB) * 10 + ((n % LIMB) * 10) \div LIMB >= LIMB

\* Duration::from_millis((sys_uptime * 10) as u64), the product taken
\* modulo 2^32 (the wrapping result; the exact one when nothing overflows)
millis_from_centis(n) ==
    LET lo10 == (n % LIMB) * 10
        hi == ((n \div LIMB) * 10 + lo10 \div LIMB) % LIMB
        lo == lo10 % LIMB
        rem == (hi % MILLIS_PER_SEC) * LIMB + lo
    IN  [secs |-> (hi \div MILLIS_PER_SEC) * LIMB + rem \div MILLIS_PER_SEC,
         nanos |-> (rem % MILLIS_PER_SEC) * NANOS_PER_MILLI]

\* if let Some(vb) = &self.vb { payload.extend(vb.to_bytes(&bo)?) }
vb_to_payload(vb, bo) ==
    IF vb.some THEN VarBindList_to_bytes(vb.v, bo) ELSE Ok(<<>>)

Response_default ==
    [header |-> Header_new("Response"),
     sys_uptime |-> Duration_new(0, 0),
     res_error |-> "NoAgentXError",
     res_index |-> 0,
     vb |-> None]

\* a from_header that answers with the request's own header
Response_from_header_copying(header) ==
    [Response_default EXCEPT !.header = [header EXCEPT !.ty = "Response"]]

Response_from_header(header) ==
    [Response_default EXCEPT !.header.session_id = header.session_id,
                             !.header.transaction_id = header.transaction_id,
                             !.header.packet_id = header.packet_id]

Response_to_bytes(p) ==
    LET bo == Header_byte_order(p.header)
        sys_uptime == sys_uptime_to_u32(p.sys_uptime)
    IN  IF sys_uptime.st # "ok" THEN [res |-> Err, self |-> p]
        ELSE stamp_and_emit(p,
                Cat(Ok(u32_to_bytes(sys_uptime.v, bo)
                       \o ResError_to_bytes(p.res_error, bo)
                       \o u16_to_bytes(p.res_index, bo)),
                    vb_to_payload(p.vb, bo)))

\* match b.get(2..) { None => None, Some(b) => Some(VarBindList::from_bytes(b)?) }
vb_from_bytes(b, bo) ==
    LET rest == get_from(b, 2)
    IN  IF rest.st # "ok" THEN Ok(None)
        ELSE Try(VarBindList_from_bytes(rest.v, bo), LAMBDA l : Ok(Some(l)))

\* build is "debug" (overflow checks on: an overflowing multiplication
\* panics) or "release" (it wraps).
Response_from_bytes(b, build) ==
    Try(Header_from_bytes(b), LAMBDA header :
    Try(get_from(b, Header_byte_size(header)), LAMBDA b1 :
    Try(bytes_to_u32(b1, Header_byte_order(header)), LAMBDA sys_uptime :
    IF build = "debug" /\ mul10_overflows(sys_uptime) THEN Panic
    ELSE Try(get_from(b1, 4), LAMBDA b2 :
         Try(ResError_from_bytes(b2, Header_byte_order(header)),
             LAMBDA res_error :
         Try(get_from(b2, ResError_byte_size(res_error)), LAMBDA b3 :
         Try(bytes_to_u16(b3, Header_byte_order(header)), LAMBDA res_index :
         Try(vb_from_bytes(b3, Header_byte_order(header)), LAMBDA vb :
         Ok([header |-> header,
             sys_uptime |-> millis_from_centis(sys_uptime),
             res_error |-> res_error,
             res_index |-> res_index,
             vb |-> vb])))))))))

(***************************************************************************)
(* id.rs: the textual form.  A str is the sequence of its UTF-8 bytes:     *)
(* '0'..'9' are 48..57, '.' is 46, '+' is 43, '-' is 45.                   *)
(***************************************************************************)
\* write!(f, "{}", id) for a u32: its decimal digits
RECURSIVE u32_to_string(_)
u32_to_string(n) ==
    IF n < 10 THEN <<48 + n>>
    ELSE u32_to_string(n \div 10) \o <<48 + (n % 10)>>

\* what the loop of Display::fmt writes for the elements lo..hi: a dot
\* before every element but the first, then the element in decimal.  The
\* range is halved so that a long ID does not nest the evaluation deeply.
RECURSIVE ID_fmt(_, _, _)
ID_fmt(sub_ids, lo, hi) ==
    IF lo > hi THEN <<>>
    ELSE IF lo = hi
    THEN (IF lo > 1 THEN <<46>> ELSE <<>>) \o u32_to_string(sub_ids[lo])
    ELSE ID_fmt(sub_ids, lo, (lo + hi) \div 2)
             \o ID_fmt(sub_ids, (lo + hi) \div 2 + 1, hi)

\* id.to_string(), through impl fmt::Display for ID
ID_to_string(id) == ID_fmt(id.sub_ids, 1, Len(id.sub_ids))

\* input.split(sep): the pieces between the separators, empty ones kept
split(input, sep) ==
    LET seps == SelectSeq([i \in 1..Len(input) |-> i],
                          LAMBDA i : input[i] = sep)
        ends == <<0>> \o seps \o <<Len(input) + 1>>
    IN  [k \in 1..(Len(seps) + 1) |->
            SubSeq(input, ends[k] + 1, ends[k + 1] - 1)]

\* the digit loop of u32::from_str: result * 10 + digit with overflow
\* checks, the result kept as two 16-bit limbs
RECURSIVE digits_to_u32(_, _, _)
digits_to_u32(digits, hi, lo) ==
    IF digits = <<>> THEN Ok(hi * LIMB + lo)
    ELSE IF Head(digits) \notin 48..57 THEN Err
    ELSE LET lo10 == lo * 10 + (Head(digits) - 48)
             hi10 == hi * 10 + lo10 \div LIMB
         IN  IF hi10 >= LIMB THEN Err
             ELSE digits_to_u32(Tail(digits), hi10, lo10 % LIMB)

\* i.parse::<u32>(): an optional '+', then at least one decimal digit; a
\* '-' is an invalid digit for an unsigned type
u32_from_str(src) ==
    IF src = <<>> THEN Err
    ELSE IF Len(src) = 1 /\ src[1] \in {43, 45} THEN Err
    ELSE IF src[1] = 43 THEN digits_to_u32(Tail(src), 0, 0)
    ELSE digits_to_u32(src, 0, 0)

\* impl FromStr for ID
ID_from_str(input) ==
    IF input = <<>> THEN Ok(ID_default)
    ELSE LET parts == split(input, 46)
             vals == [k \in DOMAIN parts |-> u32_from_str(parts[k])]
         IN  IF \E k \in DOMAIN vals : vals[k].st # "ok" THEN Err
             ELSE ID_try_from([k \in DOMAIN vals |-> vals[k].v])

(***************************************************************************)
(* Dispatch on the type under test.                                        *)
(***************************************************************************)
EncodingKinds ==
    {"ID", "OctetString", "Context", "SearchRange", "SearchRangeList",
     "VarBind", "VarBindList"}

PDUKinds == {TypeNames[i] : i \in 1..Len(TypeNames)}

Kinds == EncodingKinds \cup {"Header"} \cup PDUKinds

\* The types under test through their textual form.
TextKinds == {"IDText"}

\* The variants with a `context: Option<Context>` field.
ContextKinds == PDUKinds \ {"Open", "Close", "CommitSet", "UndoSet",
                            "CleanupSet", "Response"}

\* The encodings with a byte_size of their own.
SizedKinds == {"ID", "OctetString", "Context", "SearchRange", "VarBind"}

\* k::to_bytes on x: [res |-> the Result, self |-> x after the call]
to_bytes(k, x, bo) ==
    CASE k = "ID" -> [res |-> ID_to_bytes(x, bo), self |-> x]
      [] k = "OctetString" -> [res |-> OctetString_to_bytes(x, bo), self |-> x]
      [] k = "Context" -> [res |-> Context_to_bytes(x, bo), self |-> x]
      [] k = "SearchRange" -> [res |-> SearchRange_to_bytes(x, bo), self |-> x]
      [] k = "SearchRangeList" ->
            [res |-> SearchRangeList_to_bytes(x, bo), self |-> x]
      [] k = "VarBind" -> [res |-> VarBind_to_bytes(x, bo), self |-> x]
      [] k = "VarBindList" -> [res |-> VarBindList_to_bytes(x, bo), self |-> x]
      [] k = "Header" -> [res |-> Ok(Header_to_bytes(x)), self |-> x]
      [] k = "Open" -> Open_to_bytes(x)
      [] k = "Close" -> Close_to_bytes(x)
      [] k = "Register" -> Register_to_bytes(x)
      [] k = "Unregister" -> Unregister_to_bytes(x)
      [] k = "Get" -> Get_to_bytes(x)
      [] k = "GetNext" -> GetNext_to_bytes(x)
      [] k = "GetBulk" -> GetBulk_to_bytes(x)
      [] k = "TestSet" -> TestSet_to_bytes(x)
      [] k = "CommitSet" -> CommitSet_to_bytes(x)
      [] k = "UndoSet" -> UndoSet_to_bytes(x)
      [] k = "CleanupSet" -> CleanupSet_to_bytes(x)
      [] k = "Notify" -> Notify_to_bytes(x)
      [] k = "Ping" -> Ping_to_bytes(x)
      [] k = "IndexAllocate" -> IndexAllocate_to_bytes(x)
      [] k = "IndexDeallocate" -> IndexDeallocate_to_bytes(x)
      [] k = "AddAgentCaps" -> AddAgentCaps_to_bytes(x)
      [] k = "RemoveAgentCaps" -> RemoveAgentCaps_to_bytes(x)
      [] k = "Response" -> Response_to_bytes(x)

\* k::from_bytes on the buffer b
from_bytes(k, b, bo, build) ==
    CASE k = "ID" -> ID_from_bytes(b, bo)
      [] k = "OctetString" -> OctetString_from_bytes(b, bo)
      [] k = "Context" -> Context_from_bytes(b, bo)
      [] k = "SearchRange" -> SearchRange_from_bytes(b, bo)
      [] k = "SearchRangeList" -> SearchRangeList_from_bytes(b, bo)
      [] k = "VarBind" -> VarBind_from_bytes(b, bo)
      [] k = "VarBindList" -> VarBindList_from_bytes(b, bo)
      [] k = "Header" -> Header_from_bytes(b)
      [] k = "Open" -> Open_from_bytes(b)
      [] k = "Close" -> Close_from_bytes(b)
      [] k = "Register" -> Register_from_bytes(b)
      [] k = "Unregister" -> Unregister_from_bytes(b)
      [] k = "Get" -> Get_from_bytes(b)
      [] k = "GetNext" -> GetNext_from_bytes(b)
      [] k = "GetBulk" -> GetBulk_from_bytes(b)
      [] k = "TestSet" -> TestSet_from_bytes(b)
      [] k = "CommitSet" -> CommitSet_from_bytes(b)
      [] k = "UndoSet" -> UndoSet_from_bytes(b)
      [] k = "CleanupSet" -> CleanupSet_from_bytes(b)
      [] k = "Notify" -> Notify_from_bytes(b)
      [] k = "Ping" -> Ping_from_bytes(b)
      [] k = "IndexAllocate" -> IndexAllocate_from_bytes(b)
      [] k = "IndexDeallocate" -> IndexDeallocate_from_bytes(b)
      [] k = "AddAgentCaps" -> AddAgentCaps_from_bytes(b)
      [] k = "RemoveAgentCaps" -> RemoveAgentCaps_from_bytes(b)
      [] k = "Response" -> Response_from_bytes(b, build)

byte_size(k, x) ==
    CASE k = "ID" -> ID_byte_size(x)
      [] k = "OctetString" -> OctetString_byte_size(x)
      [] k = "Context" -> Context_byte_size(x)
      [] k = "SearchRange" -> SearchRange_byte_size(x)
      [] k = "VarBind" -> VarBind_byte_size(x)

\* Option<Context>, Option<u32>: derived PartialEq
Option_eq(a, b) == a.some = b.some /\ (a.some => a.v = b.v)

\* Option<VarBindList>
OptionVarBindList_eq(a, b) ==
    a.some = b.some /\ (a.some => VarBindList_eq(a.v, b.v))

\* a == b of the type k: the derived PartialEq of the encodings and of the
\* PDU structs, field by field, an ID comparing by ID_eq.
eq(k, a, b) ==
    CASE k = "ID" -> ID_eq(a, b)
      [] k \in {"OctetString", "Context", "Header"} -> a = b
      [] k = "SearchRange" -> SearchRange_eq(a, b)
      [] k = "SearchRangeList" -> SearchRangeList_eq(a, b)
      [] k = "VarBind" -> VarBind_eq(a, b)
      [] k = "VarBindList" -> VarBindList_eq(a, b)
      [] k = "Open" ->
            /\ a.header = b.header /\ a.timeout = b.timeout
            /\ ID_eq(a.id, b.id) /\ a.descr = b.descr
      [] k = "Close" -> a.header = b.header /\ a.reason = b.reason
      [] k = "Register" ->
            /\ a.header = b.header /\ Option_eq(a.context, b.context)
            /\ a.timeout = b.timeout /\ a.priority = b.priority
            /\ a.range_subid = b.range_subid /\ ID_eq(a.subtree, b.subtree)
            /\ Option_eq(a.upper_bound, b.upper_bound)
      [] k = "Unregister" ->
            /\ a.header = b.header /\ Option_eq(a.context, b.context)
            /\ a.priority = b.priority
            /\ a.range_subid = b.range_subid /\ ID_eq(a.subtree, b.subtree)
            /\ Option_eq(a.upper_bound, b.upper_bound)
      [] k \in {"Get", "GetNext"} ->
            /\ a.header = b.header /\ Option_eq(a.context, b.context)
            /\ SearchRangeList_eq(a.sr, b.sr)
      [] k = "GetBulk" ->
            /\ a.header = b.header /\ Option_eq(a.context, b.context)
            /\ a.non_repeaters = b.non_repeaters
            /\ a.max_repetitions = b.max_repetitions
            /\ SearchRangeList_eq(a.sr, b.sr)
      [] k \in {"TestSet", "Notify", "IndexAllocate", "IndexDeallocate"} ->
            /\ a.header = b.header /\ Option_eq(a.context, b.context)
            /\ VarBindList_eq(a.vb, b.vb)
      [] k \in {"CommitSet", "UndoSet", "CleanupSet"} -> a.header = b.header
      [] k = "Ping" -> a.header = b.header /\ Option_eq(a.context, b.context)
      [] k = "AddAgentCaps" ->
            /\ a.header = b.header /\ Option_eq(a.context, b.context)
            /\ ID_eq(a.id, b.id) /\ a.descr = b.descr
      [] k = "RemoveAgentCaps" ->
            /\ a.header = b.header /\ Option_eq(a.context, b.context)
            /\ ID_eq(a.id, b.id)
      [] k = "Response" ->
            /\ a.header = b.header /\ a.sys_uptime = b.sys_uptime
            /\ a.res_error = b.res_error /\ a.res_index = b.res_index
            /\ OptionVarBindList_eq(a.vb, b.vb)

(***************************************************************************)
(* The values the codec is exercised on.  Each is built the way a caller   *)
(* builds it: an ID by try_from, the other encodings by their              *)
(* constructors, a PDU by setting the public fields of the struct.         *)
(***************************************************************************)
MaxSubIds == 3
MaxStr == 5
MaxList == 2

Min(a, b) == IF a < b THEN a ELSE b

\* 1.3.6.1.4.1.23.258
SubIdBase == <<1, 3, 6, 1, 4, 1, 23, 258>>

SampleID(n) == ID_try_from(SubSeq(SubIdBase, 1, Min(n, Len(SubIdBase)))).v

SampleIDs ==
    {SampleID(n) : n \in 0..MaxSubIds}
        \cup {[SampleID(MaxSubIds) EXCEPT !.include = 1]}

\* "rocks!!!"
StrBase == <<114, 111, 99, 107, 115, 33, 33, 33>>

SampleStr(n) == SubSeq(StrBase, 1, Min(n, Len(StrBase)))

\* the prefixes of StrBase, and "e" with an acute accent (two bytes)
SampleStrs == {SampleStr(n) : n \in 0..MaxStr} \cup {<<195, 169>>}

SampleRange(i) ==
    SearchRange_new([SampleID(i % (MaxSubIds + 1)) EXCEPT !.include = i % 2],
                    SampleID((2 * i) % (MaxSubIds + 1)))

SampleRanges == {SampleRange(i) : i \in 0..(2 * MaxSubIds + 1)}

SampleRangeList(k, n) == [i \in 1..n |-> SampleRange(k + i - 1)]

SampleRangeLists ==
    {SampleRangeList(k, n) : k \in 0..MaxSubIds, n \in 0..MaxList}

\* one Value of each of the 13 variants
SampleValues ==
    << Value("Integer", -2),
       Value("OctetString", SampleStr(MaxStr)),
       Value("Null", 0),
       Value("ObjectIdentifier", SampleID(MaxSubIds)),
       Value("IpAddress", <<10, 1, 2, 3>>),
       Value("Counter32", 66051),
       Value("Gauge32", 7),
       Value("TimeTicks", 4660),
       Value("Opaque", SampleStr(3)),
       Value("Counter64", [hi |-> 1, lo |-> 258]),
       Value("NoSuchObject", 0),
       Value("NoSuchInstance", 0),
       Value("EndOfMibView", 0) >>

SampleVarBind(i) ==
    VarBind_new(SampleID(i % (MaxSubIds + 1)),
                SampleValues[((i - 1) % Len(SampleValues)) + 1])

SampleVarBinds == {SampleVarBind(i) : i \in 1..Len(SampleValues)}

SampleVarBindList(k, n) == [i \in 1..n |-> SampleVarBind(k + i - 1)]

SampleVarBindLists ==
    {SampleVarBindList(k, n) : k \in 1..Len(SampleValues), n \in 0..MaxList}

\* bit 3 (NON_DEFAULT_CONTEXT) and bit 4 (NETWORK_BYTE_ORDER), each clear
\* and set
SampleFlags == {0, 8, 16, 24}

\* payload_length as the caller left it before to_bytes
SamplePayloadLengths == {0, 7}

SampleHeaders(ty) ==
    {[Header_new(ty) EXCEPT !.flags = f, !.session_id = 258,
                            !.transaction_id = 3, !.packet_id = 66051,
                            !.payload_length = pl] :
        f \in SampleFlags, pl \in SamplePayloadLengths}

SampleContexts == {None, Some(SampleStr(3))}

\* (range_subid, upper_bound) of Register and Unregister
SampleBounds == {<<0, None>>, <<2, Some(7)>>, <<0, Some(7)>>, <<2, None>>}

\* timeouts of Open and Register: 5 s, 255.5 s, 300 s, and 255 s with a
\* whole second of nanoseconds (256 s)
SampleTimeouts ==
    {Duration_new(5, 0), Duration_new(U8_MAX, 500000000),
     Duration_new(300, 0), Duration_new(U8_MAX, 1000000000)}

\* (context, timeout) of Register.  The timeout byte 255 goes with a
\* context only: without one the byte opens the payload, and a decoder that
\* takes the payload for a context reads a word of 2^31 or more from it.
RegisterContextTimeouts ==
    {<<c, t>> : c \in SampleContexts,
                t \in SampleTimeouts \ {Duration_new(U8_MAX, 500000000)}}
        \cup {<<Some(SampleStr(3)), Duration_new(U8_MAX, 500000000)>>}

PduRangeLists == {<<>>, SampleRangeList(1, MaxList)}

PduVarBindLists ==
    {<<>>, SampleVarBindList(2, MaxList), SampleVarBindList(9, MaxList)}

\* (sys_uptime, res_error, res_index, vb) of Response: the default; two
\* with a list; an uptime of 536870928 hundredths of a second, whose
\* tenfold exceeds u32::MAX; an uptime beyond what a u32 of hundredths holds
SampleResponses ==
    { <<Duration_new(0, 0), "NoAgentXError", 0, None>>,
      <<Duration_new(2, 580000000), "ParseError", 258,
        Some(SampleVarBindList(1, MaxList))>>,
      <<Duration_new(2, 580000000), "NotOpen", 1, Some(<<>>)>>,
      <<Duration_new(5368709, 280000000), "NoAgentXError", 0, None>>,
      <<Duration_new(42949673, 0), "NoAgentXError", 0, None>> }

\* the IDs written as text: the sample IDs, and 0.2147483647
SampleTextIDs == SampleIDs \cup {ID_try_from(<<0, 2147483647>>).v}

Samples(k) ==
    CASE k = "ID" -> SampleIDs
      [] k = "IDText" -> SampleTextIDs
      [] k = "OctetString" -> SampleStrs
      [] k = "Context" -> SampleStrs
      [] k = "SearchRange" -> SampleRanges
      [] k = "SearchRangeList" -> SampleRangeLists
      [] k = "VarBind" -> SampleVarBinds
      [] k = "VarBindList" -> SampleVarBindLists
      [] k = "Header" -> SampleHeaders("Get")
      [] k = "Open" ->
            {[header |-> h, timeout |-> t, id |-> SampleID(MaxSubIds),
              descr |-> SampleStr(MaxStr)] :
                h \in SampleHeaders(k),
                t \in SampleTimeouts}
      [] k = "Close" ->
            {[header |-> h, reason |-> r] :
                h \in SampleHeaders(k), r \in {"Other", "ByManager"}}
      [] k = "Register" ->
            {[header |-> h, context |-> ct[1], timeout |-> ct[2],
              priority |-> 127, range_subid |-> u[1],
              subtree |-> SampleID(MaxSubIds), upper_bound |-> u[2]] :
                h \in SampleHeaders(k), ct \in RegisterContextTimeouts,
                u \in SampleBounds}
      [] k = "Unregister" ->
            {[header |-> h, context |-> c, priority |-> 127,
              range_subid |-> u[1], subtree |-> SampleID(MaxSubIds),
              upper_bound |-> u[2]] :
                h \in SampleHeaders(k), c \in SampleContexts,
                u \in SampleBounds}
      [] k \in {"Get", "GetNext"} ->
            {[header |-> h, context |-> c, sr |-> l] :
                h \in SampleHeaders(k), c \in SampleContexts,
                l \in PduRangeLists}
      [] k = "GetBulk" ->
            {[header |-> h, context |-> c, non_repeaters |-> 1,
              max_repetitions |-> 258, sr |-> l] :
                h \in SampleHeaders(k), c \in SampleContexts,
                l \in PduRangeLists}
      [] k \in {"TestSet", "Notify", "IndexAllocate", "IndexDeallocate"} ->
            {[header |-> h, context |-> c, vb |-> l] :
                h \in SampleHeaders(k), c \in SampleContexts,
                l \in PduVarBindLists}
      [] k \in {"CommitSet", "UndoSet", "CleanupSet"} ->
            {[header |-> h] : h \in SampleHeaders(k)}
      [] k = "Ping" ->
            {[header |-> h, context |-> c] :
                h \in SampleHeaders(k), c \in SampleContexts}
      [] k = "AddAgentCaps" ->
            {[header |-> h, context |-> c, id |-> SampleID(MaxSubIds),
              descr |-> SampleStr(MaxStr)] :
                h \in SampleHeaders(k), c \in SampleContexts}
      [] k = "RemoveAgentCaps" ->
            {[header |-> h, context |-> c, id |-> SampleID(MaxSubIds)] :
                h \in SampleHeaders(k), c \in SampleContexts}
      [] k = "Response" ->
            {[header |-> h, sys_uptime |-> r[1], res_error |-> r[2],
              res_index |-> r[3], vb |-> r[4]] :
                h \in SampleHeaders(k), r \in SampleResponses}

\* The byte order an encoding is called with; a PDU and a Header take
\* theirs from their own flags.
SampleOrders(k, x) ==
    IF k \in EncodingKinds THEN ByteOrder
    ELSE IF k \in TextKinds THEN {LittleEndian}
    ELSE IF k = "Header" THEN {Header_byte_order(x)}
    ELSE {Header_byte_order(x.header)}

\* The bytes a peer may put in the payload_length field.
LengthWords ==
    { <<0, 0, 0, 0>>, <<4, 0, 0, 0>>, <<0, 0, 0, 4>>, <<1, 2, 3, 5>>,
      <<127, 127, 127, 127>> }

\* the buffer b with the bytes l in its payload_length field
WithLengthWord(b, l) == SubSeq(b, 1, 16) \o l \o SubSeq(b, 21, Len(b))

\* The builds of the crate: with overflow checks (debug) and without.
Builds == {"debug", "release"}

\* A peer or the network overwrites one byte: positions within the first
\* word of the buffer and within the first word after a 20-byte header.
CorruptPositions == (1..4) \cup (21..24)
CorruptValues == {0, 1, 127}

(***************************************************************************)
(* Reading a buffer by hand, without the codec: what a peer that follows   *)
(* RFC 2741 would write and read.                                          *)
(***************************************************************************)
\* bit 4 of a flags byte
NetworkOrderBit(flags) == (flags \div 16) % 2 = 1

\* bit 3 of a flags byte
ContextBit(flags) == (flags \div 8) % 2 = 1

BE32(n) == <<n \div 16777216, (n \div 65536) % 256, (n \div 256) % 256, n % 256>>

LE32(n) == <<n % 256, (n \div 256) % 256, (n \div 65536) % 256, n \div 16777216>>

Ordered32(flags, n) == IF NetworkOrderBit(flags) THEN BE32(n) ELSE LE32(n)

Ordered16(flags, n) ==
    IF NetworkOrderBit(flags) THEN <<n \div 256, n % 256>>
    ELSE <<n % 256, n \div 256>>

\* the w bytes of b after the first off
Field(b, off, w) == SubSeq(b, off + 1, off + w)

\* the u32 at offset off of the packet b, in the order b's own flags name
U32At(b, off) ==
    IF NetworkOrderBit(b[3])
    THEN ((b[off + 1] * 256 + b[off + 2]) * 256 + b[off + 3]) * 256 + b[off + 4]
    ELSE ((b[off + 4] * 256 + b[off + 3]) * 256 + b[off + 2]) * 256 + b[off + 1]

U16At(b, off) ==
    IF NetworkOrderBit(b[3]) THEN b[off + 1] * 256 + b[off + 2]
    ELSE b[off + 2] * 256 + b[off + 1]

(***************************************************************************)
(* Buffers that arrive from a peer, written by hand: [wire, bo].           *)
(***************************************************************************)
MaxCode == 300

Word32(n, order) == IF order = BigEndian THEN BE32(n) ELSE LE32(n)

Word16(n, order) ==
    IF order = BigEndian THEN <<n \div 256, n % 256>>
    ELSE <<n % 256, n \div 256>>

\* the words of the sub-identifiers S, one after the other
Words(S, order) ==
    [i \in 1..(4 * Len(S)) |-> Word32(S[((i - 1) \div 4) + 1], order)[((i - 1) % 4) + 1]]

\* an ID as RFC 2741 lays it out: n_subid, prefix, include, reserved, then
\* the sub-identifiers
HandID(prefix, include, S, order) ==
    <<Len(S), prefix, include, 0>> \o Words(S, order)

\* n sub-identifiers of value 1
Ones(n) == [i \in 1..n |-> 1]

\* the sub-identifiers of SubIdBase from the i-th on, at most n of them
SubIdsFrom(i, n) == SubSeq(SubIdBase, i, Min(i + n - 1, Len(SubIdBase)))

\* IDs in the explicit form and in the compact form (prefix 4 stands for
\* 1.3.6.1.4), the same identifiers in both, and an ID in the compact form
\* that lists 251 sub-identifiers
ReceivedIDs ==
    {[wire |-> HandID(0, inc, SubIdsFrom(1, 5 + n), o), bo |-> o] :
        n \in 0..MaxSubIds, inc \in {0, 1}, o \in ByteOrder}
    \cup {[wire |-> HandID(4, inc, SubIdsFrom(6, n), o), bo |-> o] :
        n \in 0..MaxSubIds, inc \in {0, 1}, o \in ByteOrder}
    \cup {[wire |-> HandID(1, 0, Ones(U8_MAX - 4), o), bo |-> o] :
        o \in ByteOrder}

\* pairs of IDs: 1.9 and 1.10, an ID and a proper prefix of it, the same
\* ID with and without the include flag, the same ID in both forms
ReceivedRanges ==
    {[wire |-> HandID(0, p[1], p[2], o) \o HandID(p[3], 0, p[4], o), bo |-> o] :
        p \in { <<0, <<1, 9>>, 0, <<1, 10>> >>,
                <<0, <<1, 10>>, 0, <<1, 9>> >>,
                <<0, <<1, 9>>, 0, <<1>> >>,
                <<0, <<>>, 0, <<1>> >>,
                <<1, <<1, 9>>, 0, <<1, 9>> >>,
                <<0, SubIdsFrom(1, 5 + MaxSubIds), 4, SubIdsFrom(6, MaxSubIds)>>,
                <<0, <<2>>, 4, <<>> >> },
        o \in ByteOrder}

\* a VarBind of every type code up to MaxCode: a null name, then eight zero
\* bytes, enough for the payload of every variant
ReceivedVarBinds ==
    {[wire |-> Word16(t, o) \o <<0, 0>> \o HandID(0, 0, <<>>, o)
                   \o <<0, 0, 0, 0, 0, 0, 0, 0>>,
      bo |-> o] : t \in 0..MaxCode, o \in ByteOrder}
    \cup {[wire |-> Word16(6, o) \o <<0, 0>> \o HandID(1, 0, Ones(U8_MAX - 4), o)
                   \o HandID(0, 0, <<>>, o),
           bo |-> o] : o \in ByteOrder}

\* the 20 bytes of a header of type code t
HandHeader(t, flags, payload_length) ==
    <<1, t, flags, 0>> \o Ordered32(flags, 258) \o Ordered32(flags, 3)
        \o Ordered32(flags, 66051) \o Ordered32(flags, payload_length)

HandOrder(flags) == IF NetworkOrderBit(flags) THEN BigEndian ELSE LittleEndian

\* a header of every type byte
ReceivedHeaders ==
    {[wire |-> HandHeader(t, f, pl), bo |-> HandOrder(f)] :
        t \in 0..U8_MAX, f \in {0, 16}, pl \in {0, 4, 7}}

\* a Close of every reason byte
ReceivedCloses ==
    {[wire |-> HandHeader(2, f, 4) \o <<r, 0, 0, 0>>, bo |-> HandOrder(f)] :
        r \in 0..U8_MAX, f \in {0, 16}}

\* an OctetString as a peer writes it: length, content, zero padding
HandStr(content, flags) ==
    Ordered32(flags, Len(content))
        \o content \o [i \in 1..((4 - (Len(content) % 4)) % 4) |-> 0]

\* the context "ab" when the flags announce one, else nothing
HandContext(flags) ==
    IF ContextBit(flags) THEN HandStr(<<97, 98>>, flags) ELSE <<>>

\* an Open laid out with the optional context first: [context] timeout 5 s, three
\* reserved bytes, the ID (prefix, S), the description "x"
HandOpen(flags, prefix, S) ==
    LET payload == HandContext(flags) \o <<5, 0, 0, 0>>
                       \o HandID(prefix, 0, S, HandOrder(flags))
                       \o HandStr(<<120>>, flags)
    IN  HandHeader(1, flags, Len(payload)) \o payload

\* Opens with and without a context, the ID 1.3 explicit and the ID
\* 1.3.6.1.4.1.23 compact
ReceivedOpens ==
    {[wire |-> HandOpen(f, 0, <<1, 3>>), bo |-> HandOrder(f)] :
        f \in SampleFlags}
    \cup {[wire |-> HandOpen(f, 4, <<1, 23>>), bo |-> HandOrder(f)] :
            f \in SampleFlags}

\* OctetStrings from a peer: a length word, then content that is complete
\* or not, padded or not, well-formed UTF-8 or not ("e" with an acute accent
\* is 195 169), and buffers too short for the length word
ReceivedStrs ==
    {[wire |-> Word32(p[1], o) \o p[2], bo |-> o] :
        p \in { <<0, <<>> >>,
                <<0, <<255, 255>> >>,
                <<5, <<114, 111, 99, 107, 115>> >>,
                <<5, <<114, 111, 99, 107>> >>,
                <<2, <<195, 169, 0, 0>> >>,
                <<2, <<169, 195, 0, 0>> >>,
                <<1, <<195, 169, 0, 0>> >>,
                <<3, <<120, 195, 169>> >>,
                <<3, <<120, 121, 195, 169>> >>,
                <<1, <<255, 0, 0, 0>> >>,
                <<3, <<237, 160, 128, 0>> >>,
                <<2, <<192, 128, 0, 0>> >>,
                <<127, <<120, 0, 0, 0>> >> },
        o \in ByteOrder}
    \cup {[wire |-> SubSeq(<<1, 0, 0>>, 1, n), bo |-> o] :
            n \in 0..3, o \in ByteOrder}

\* the ID 1.3.6.1.p.S in the form "compact" (prefix p, S listed) or
\* "explicit" (prefix 0, all listed)
WireID(form, p, S, order) ==
    IF form = "compact" THEN HandID(p, 0, S, order)
    ELSE HandID(0, 0, <<1, 3, 6, 1, p>> \o S, order)

Forms == {"compact", "explicit"}

\* the ranges (1.3.6.1.4.1.23, 1.3.6.1.2.7) and (1.3.6.1.4.2, null)
HandRangeList(form, o) ==
    WireID(form, 4, <<1, 23>>, o) \o WireID(form, 2, <<7>>, o)
        \o WireID(form, 4, <<2>>, o) \o HandID(0, 0, <<>>, o)

\* 1.3.6.1.4.1 = Integer 7, 1.3.6.1.4.2 = ObjectIdentifier 1.3.6.1.2.7,
\* 1.3.6.1.4.3 = OctetString "x"
HandVarBindList(form, o) ==
    LET f == IF o = BigEndian THEN 16 ELSE 0
    IN  Word16(2, o) \o <<0, 0>> \o WireID(form, 4, <<1>>, o) \o Word32(7, o)
        \o Word16(6, o) \o <<0, 0>> \o WireID(form, 4, <<2>>, o)
        \o WireID(form, 2, <<7>>, o)
        \o Word16(4, o) \o <<0, 0>> \o WireID(form, 4, <<3>>, o)
        \o HandStr(<<120>>, f)

\* a Register of 1.3.6.1.4.1.23 with range_subid 2 and upper bound 9
HandRegister(form, flags) ==
    LET payload == HandContext(flags) \o <<5, 127, 2, 0>>
                       \o WireID(form, 4, <<1, 23>>, HandOrder(flags))
                       \o Ordered32(flags, 9)
    IN  HandHeader(3, flags, Len(payload)) \o payload

\* an AddAgentCaps of 1.3.6.1.4.1.23 with the description "x"
HandAddAgentCaps(form, flags) ==
    LET payload == HandContext(flags)
                       \o WireID(form, 4, <<1, 23>>, HandOrder(flags))
                       \o HandStr(<<120>>, flags)
    IN  HandHeader(16, flags, Len(payload)) \o payload

\* the same values in the compact and in the explicit form
FormPairs(k) ==
    CASE k = "SearchRangeList" ->
            {[compact |-> HandRangeList("compact", o),
              explicit |-> HandRangeList("explicit", o), bo |-> o] :
                o \in ByteOrder}
      [] k = "VarBindList" ->
            {[compact |-> HandVarBindList("compact", o),
              explicit |-> HandVarBindList("explicit", o), bo |-> o] :
                o \in ByteOrder}
      [] k = "Open" ->
            {[compact |-> HandOpen(f, 4, <<1, 23>>),
              explicit |-> HandOpen(f, 0, <<1, 3, 6, 1, 4, 1, 23>>),
              bo |-> HandOrder(f)] : f \in {0, 16}}
      [] k = "Register" ->
            {[compact |-> HandRegister("compact", f),
              explicit |-> HandRegister("explicit", f),
              bo |-> HandOrder(f)] : f \in SampleFlags}
      [] k = "AddAgentCaps" ->
            {[compact |-> HandAddAgentCaps("compact", f),
              explicit |-> HandAddAgentCaps("explicit", f),
              bo |-> HandOrder(f)] : f \in SampleFlags}
      [] OTHER -> {}

ReceivedForms(k) ==
    {[wire |-> p.compact, bo |-> p.bo] : p \in FormPairs(k)}
        \cup {[wire |-> p.explicit, bo |-> p.bo] : p \in FormPairs(k)}

\* a Response of every error code up to MaxCode, without a VarBindList
ReceivedResponses ==
    {[wire |-> HandHeader(18, f, 8) \o Ordered32(f, 258) \o Ordered16(f, e)
                   \o Ordered16(f, 1),
      bo |-> HandOrder(f)] : e \in 0..MaxCode, f \in {0, 16}}

\* "1.1. ... .1" with n components
DottedOnes(n) == [i \in 1..(2 * n - 1) |-> IF i % 2 = 1 THEN 49 ELSE 46]

\* Texts handed to ID::from_str: "", "1.3.6", "01.002", "2147483647",
\* "+1.3", "1..2", "1.", ".", "x", "1.x", "-1", "+", "4294967296", and 255
\* and 256 components.
ReceivedTexts ==
    { [wire |-> t, bo |-> LittleEndian] :
        t \in { <<>>,
                <<49, 46, 51, 46, 54>>,
                <<48, 49, 46, 48, 48, 50>>,
                <<50, 49, 52, 55, 52, 56, 51, 54, 52, 55>>,
                <<43, 49, 46, 51>>,
                <<49, 46, 46, 50>>,
                <<49, 46>>,
                <<46>>,
                <<120>>,
                <<49, 46, 120>>,
                <<45, 49>>,
                <<43>>,
                <<52, 50, 57, 52, 57, 54, 55, 50, 57, 54>>,
                DottedOnes(U8_MAX),
                DottedOnes(U8_MAX + 1) } }

Received(k) ==
    CASE k = "ID" -> ReceivedIDs
      [] k = "IDText" -> ReceivedTexts
      [] k \in {"OctetString", "Context"} -> ReceivedStrs
      [] k = "SearchRange" -> ReceivedRanges
      [] k = "VarBind" -> ReceivedVarBinds
      [] k = "Header" -> ReceivedHeaders
      [] k = "Open" -> ReceivedOpens \cup ReceivedForms(k)
      [] k \in {"SearchRangeList", "VarBindList", "Register", "AddAgentCaps"} ->
            ReceivedForms(k)
      [] k = "Close" -> ReceivedCloses
      [] k = "Response" -> ReceivedResponses
      [] OTHER -> {}

(***************************************************************************)
(* The state machine: a value of type `kind` is serialized, the bytes      *)
(* travel (whole, cut short, or with a byte overwritten), are              *)
(* deserialized, and the decoded value may be serialized in turn.  A run   *)
(* may also start from a buffer that a peer has sent.                      *)
(***************************************************************************)
VARIABLES
    kind,    \* the type under test
    origin,  \* "built": self came from a constructor; "decoded": from_bytes;
             \* "reply": Response::from_header on a decoded PDU;
             \* "received": no value yet, wire came from a peer
    self,    \* the value, as the last to_bytes left it (None: no value yet)
    bo,      \* the byte order passed to an encoding
    out,     \* the Result of to_bytes(self), or NoResult
    wire,    \* the buffer handed to from_bytes (the text handed to from_str)
    cut,     \* what happened to the buffer: "none", "trunc", "corrupt";
             \* "relabel": another payload_length was written into it;
             \* "again": a second to_bytes has written it anew
    got      \* the Result of from_bytes(wire), or NoResult

vars == <<kind, origin, self, bo, out, wire, cut, got>>

NoResult == [st |-> "none"]

Init ==
    /\ kind \in Kinds \cup TextKinds
    /\ out = NoResult
    /\ cut = "none"
    /\ got = NoResult
    /\ \/ /\ origin = "built"
          /\ self \in Samples(kind)
          /\ bo \in SampleOrders(kind, self)
          /\ wire = <<>>
       \/ /\ origin = "received"
          /\ self = None
          /\ \E r \in Received(kind) : wire = r.wire /\ bo = r.bo

\* self.to_bytes(): the result, and self as the call leaves it
ToBytes ==
    /\ kind \in Kinds
    /\ out.st = "none" /\ origin # "received"
    /\ LET r == to_bytes(kind, self, bo)
       IN  /\ out' = r.res
           /\ self' = r.self
           /\ wire' = IF r.res.st = "ok" THEN r.res.v ELSE <<>>
    /\ UNCHANGED <<kind, origin, bo, cut, got>>

\* self.to_bytes() once more, after the first buffer was damaged
ToBytesAgain ==
    /\ kind \in Kinds
    /\ out.st = "ok" /\ cut \in {"trunc", "corrupt"} /\ got.st = "none"
    /\ LET r == to_bytes(kind, self, bo)
       IN  /\ out' = r.res
           /\ self' = r.self
           /\ wire' = IF r.res.st = "ok" THEN r.res.v ELSE <<>>
    /\ cut' = "again"
    /\ UNCHANGED <<kind, origin, bo, got>>

\* only the first k bytes arrive
Truncate ==
    /\ out.st = "ok" /\ origin = "built" /\ cut = "none" /\ got.st = "none"
    /\ \E k \in 0..(Len(wire) - 1) : wire' = SubSeq(wire, 1, k)
    /\ cut' = "trunc"
    /\ UNCHANGED <<kind, origin, self, bo, out, got>>

\* one byte arrives overwritten
Corrupt ==
    /\ out.st = "ok" /\ origin = "built" /\ cut = "none" /\ got.st = "none"
    /\ \E i \in CorruptPositions, v \in CorruptValues :
          /\ i <= Len(wire)
          /\ wire[i] # v
          /\ wire' = [wire EXCEPT ![i] = v]
    /\ cut' = "corrupt"
    /\ UNCHANGED <<kind, origin, self, bo, out, got>>

\* the buffer arrives with another payload_length in its header
Relabel ==
    /\ kind \in PDUKinds
    /\ out.st = "ok" /\ origin = "built" /\ cut = "none" /\ got.st = "none"
    /\ \E l \in LengthWords :
          /\ WithLengthWord(wire, l) # wire
          /\ wire' = WithLengthWord(wire, l)
    /\ cut' = "relabel"
    /\ UNCHANGED <<kind, origin, self, bo, out, got>>

\* kind::from_bytes(&wire) in one of the builds
FromBytes ==
    /\ kind \in Kinds
    /\ (out.st = "ok" \/ origin = "received") /\ got.st = "none"
    /\ \E build \in Builds : got' = from_bytes(kind, wire, bo, build)
    /\ UNCHANGED <<kind, origin, self, bo, out, wire, cut>>

\* self.to_string()
ToString ==
    /\ kind = "IDText"
    /\ out.st = "none" /\ origin # "received"
    /\ out' = Ok(ID_to_string(self))
    /\ wire' = ID_to_string(self)
    /\ UNCHANGED <<kind, origin, self, bo, cut, got>>

\* ID::from_str(&wire)
FromStr ==
    /\ kind = "IDText"
    /\ (out.st = "ok" \/ origin = "received") /\ got.st = "none"
    /\ got' = ID_from_str(wire)
    /\ UNCHANGED <<kind, origin, self, bo, out, wire, cut>>

\* Response::from_header(&pdu.header) on the PDU that from_bytes returned;
\* the request's bytes stay in wire until the answer is serialized
FromHeader ==
    /\ kind \in PDUKinds /\ got.st = "ok" /\ origin # "reply"
    /\ kind' = "Response"
    /\ origin' = "reply"
    /\ self' = Response_from_header(got.v.header)
    /\ bo' = Header_byte_order(Response_from_header(got.v.header).header)
    /\ out' = NoResult
    /\ cut' = "none"
    /\ got' = NoResult
    /\ UNCHANGED wire

\* the caller goes on with the decoded value
Adopt ==
    /\ got.st = "ok" /\ origin # "decoded"
    /\ origin' = "decoded"
    /\ self' = got.v
    /\ bo' = IF kind \in EncodingKinds \cup TextKinds THEN bo
             ELSE IF kind = "Header" THEN Header_byte_order(got.v)
             ELSE Header_byte_order(got.v.header)
    /\ out' = NoResult
    /\ wire' = <<>>
    /\ cut' = "none"
    /\ got' = NoResult
    /\ UNCHANGED kind

Next ==
    \/ ToBytes \/ Truncate \/ Corrupt \/ FromBytes \/ Adopt
    \/ ToString \/ FromStr \/ FromHeader \/ ToBytesAgain \/ Relabel

Spec == Init /\ [][Next]_vars

(***************************************************************************)
(* Shorthands of the properties.                                           *)
(***************************************************************************)
Encoded == out.st = "ok"
Decoded == got.st # "none"
Untouched == origin = "built" /\ cut = "none"

(***************************************************************************)
(* C1                                                                      *)
(***************************************************************************)
\* C1: whatever bytes a decoder is given, from_bytes returns a value or an
\* error; it never panics.
C1_DecodersNeverPanic == got.st # "panic"

\* A Response whose sys_uptime word exceeds u32::MAX / 10 has been decoded
\* by a build with overflow checks.
C1_OverflowingUptimeDecoded ==
    /\ kind = "Response" /\ got.st = "panic"
    /\ Len(wire) >= 24 /\ mul10_overflows(U32At(wire, 20))

(***************************************************************************)
(* C2                                                                      *)
(***************************************************************************)
\* C2: for each PDU variant, whenever x.to_bytes() returns bytes, from_bytes
\* of those bytes succeeds and equals x as to_bytes left it.
C2_PduRoundTrip ==
    (kind \in PDUKinds /\ Untouched /\ Decoded)
        => (got.st = "ok" /\ eq(kind, got.v, self))

\* A Response without a VarBindList came back with an empty one.
C2_ResponseGainedList ==
    /\ kind = "Response" /\ Untouched /\ got.st = "ok"
    /\ ~self.vb.some /\ got.v.vb.some

(***************************************************************************)
(* C3                                                                      *)
(***************************************************************************)
\* C3: for both byte orders and every constructor-built value x of an
\* encoding, from_bytes(to_bytes(x, bo), bo) succeeds and equals x.
C3_EncodingRoundTrip ==
    (kind \in EncodingKinds /\ Untouched /\ Decoded)
        => (got.st = "ok" /\ eq(kind, got.v, self))

\* A big-endian VarBindList of MaxList elements has made the round trip.
C3_ListRoundTripped ==
    /\ kind = "VarBindList" /\ Untouched /\ got.st = "ok"
    /\ bo = BigEndian /\ Len(self) = MaxList /\ Len(got.v) = MaxList

(***************************************************************************)
(* C4                                                                      *)
(***************************************************************************)
\* C4: for every PDU variant, the payload_length word of the emitted header
\* equals the number of bytes emitted after the header, whatever
\* payload_length held before the call.
C4_PayloadLengthStamped ==
    (kind \in PDUKinds /\ Encoded)
        => U32At(out.v, 16) = Len(out.v) - HEADER_SIZE

\* A CommitSet, UndoSet or CleanupSet has put a stale length on the wire.
C4_StaleLengthEmitted ==
    /\ kind \in {"CommitSet", "UndoSet", "CleanupSet"} /\ Encoded
    /\ Len(out.v) = HEADER_SIZE /\ U32At(out.v, 16) # 0

(***************************************************************************)
(* C5                                                                      *)
(***************************************************************************)
\* C5: every strict prefix of the bytes a PDU's to_bytes returned makes the
\* same PDU's from_bytes return an error (no value, no panic).
C5_TruncationFails ==
    (kind \in PDUKinds /\ cut = "trunc" /\ Decoded) => got.st = "err"

\* A truncated PDU has been accepted.
C5_TruncatedAccepted ==
    /\ kind \in PDUKinds /\ cut = "trunc" /\ got.st = "ok"
    /\ Len(wire) < Len(out.v)

(***************************************************************************)
(* C6                                                                      *)
(***************************************************************************)
ListKinds == {"SearchRangeList", "VarBindList"}

\* the lengths at which an encoded list ends with a complete element
ElementBoundaries ==
    {Len(to_bytes(kind, SubSeq(self, 1, n), bo).res.v) : n \in 0..Len(self)}

\* C6: a list built from N elements decodes back to exactly N elements, and
\* a buffer of complete elements followed by a non-empty incomplete element
\* makes the list's from_bytes return an error, not the shorter list.
C6_ListFraming ==
    /\ (kind \in ListKinds /\ Untouched /\ Decoded)
          => (got.st = "ok" /\ Len(got.v) = Len(self))
    /\ (kind \in ListKinds /\ cut = "trunc" /\ Decoded
            /\ Len(wire) \notin ElementBoundaries)
          => got.st = "err"

\* A list cut inside its second element has been refused.
C6_DanglingElementRefused ==
    /\ kind \in ListKinds /\ cut = "trunc" /\ got.st = "err"
    /\ Len(self) = MaxList
    /\ Len(wire) > Len(to_bytes(kind, SubSeq(self, 1, 1), bo).res.v)
    /\ Len(wire) \notin ElementBoundaries

(***************************************************************************)
(* C7                                                                      *)
(***************************************************************************)
\* The payload in out begins with the encoded context of self, and is that
\* much longer than the payload of the same PDU without a context.
ContextOnWire ==
    /\ self.context.some
    /\ LET c == Ordered32(self.header.flags, Len(self.context.v))
                    \o pad4(self.context.v)
           bare == to_bytes(kind, [self EXCEPT !.context = None], bo).res.v
       IN  /\ Field(out.v, HEADER_SIZE, Len(c)) = c
           /\ Len(out.v) = Len(bare) + Len(c)

\* C7: for every variant that can carry a context, to_bytes writes the
\* encoded Context at the head of the payload if and only if bit 3 of
\* header.flags is set, and from_bytes reads a Context under exactly the
\* same condition.
C7_ContextIffFlag ==
    kind \in ContextKinds =>
        /\ Encoded => (ContextOnWire <=> ContextBit(self.header.flags))
        /\ got.st = "ok" => (got.v.context.some <=> ContextBit(wire[3]))

\* A context has been written under a header whose bit 3 is clear.
C7_ContextWithoutFlag ==
    /\ kind \in ContextKinds /\ origin = "built" /\ Encoded
    /\ ContextOnWire /\ ~ContextBit(out.v[3])

(***************************************************************************)
(* C8                                                                      *)
(***************************************************************************)
\* where the payload continues after the context, if one was written
AfterContext(p) ==
    HEADER_SIZE + (IF p.context.some THEN 4 + Len(pad4(p.context.v)) ELSE 0)

\* The integers of self are in out in the order that bit 4 of the flags
\* byte on the wire names: the four words of the header, and in the payload
\* the length of a context, the three integers of a Response, the two of a
\* GetBulk, the upper bound of a Register or Unregister, the sub-identifiers
\* of an Open, the type of the first VarBind of a list.
WrittenInFlagOrder ==
    LET f == out.v[3]
        h == self.header
    IN  /\ f = h.flags
        /\ Field(out.v, 4, 4) = Ordered32(f, h.session_id)
        /\ Field(out.v, 8, 4) = Ordered32(f, h.transaction_id)
        /\ Field(out.v, 12, 4) = Ordered32(f, h.packet_id)
        /\ Field(out.v, 16, 4) = Ordered32(f, h.payload_length)
        /\ (kind \in ContextKinds /\ self.context.some)
              => Field(out.v, 20, 4) = Ordered32(f, Len(self.context.v))
        /\ kind = "Response"
              => /\ Field(out.v, 20, 4)
                        = Ordered32(f, self.sys_uptime.secs * CENTIS_PER_SEC
                                       + self.sys_uptime.nanos \div NANOS_PER_CENTI)
                 /\ Field(out.v, 24, 2) = Ordered16(f, ResError_code(self.res_error))
                 /\ Field(out.v, 26, 2) = Ordered16(f, self.res_index)
        /\ kind = "GetBulk"
              => /\ Field(out.v, AfterContext(self), 2)
                        = Ordered16(f, self.non_repeaters)
                 /\ Field(out.v, AfterContext(self) + 2, 2)
                        = Ordered16(f, self.max_repetitions)
        /\ (kind \in {"Register", "Unregister"} /\ self.upper_bound.some)
              => Field(out.v, Len(out.v) - 4, 4) = Ordered32(f, self.upper_bound.v)
        /\ kind = "Open"
              => \A i \in 1..Len(self.id.sub_ids) :
                    Field(out.v, 24 + 4 * i, 4) = Ordered32(f, self.id.sub_ids[i])
        /\ (kind \in {"TestSet", "Notify", "IndexAllocate", "IndexDeallocate"}
                /\ self.vb # <<>>)
              => Field(out.v, AfterContext(self), 2)
                    = Ordered16(f, varbind_ty(self.vb[1].data))

\* The integers of the decoded PDU are those that the buffer holds in the
\* order that bit 4 of its own flags byte names.
ReadInFlagOrder ==
    LET h == got.v.header
    IN  /\ h.flags = wire[3]
        /\ h.session_id = U32At(wire, 4)
        /\ h.transaction_id = U32At(wire, 8)
        /\ h.packet_id = U32At(wire, 12)
        /\ h.payload_length = U32At(wire, 16)
        /\ (kind \in ContextKinds /\ got.v.context.some)
              => Len(got.v.context.v) = U32At(wire, 20)
        /\ kind = "Response"
              => /\ got.v.sys_uptime = millis_from_centis(U32At(wire, 20))
                 /\ ResError_code(got.v.res_error) = U16At(wire, 24)
                 /\ got.v.res_index = U16At(wire, 26)
        /\ kind = "GetBulk"
              => /\ got.v.non_repeaters = U16At(wire, AfterContext(got.v))
                 /\ got.v.max_repetitions = U16At(wire, AfterContext(got.v) + 2)
        /\ (kind \in {"Register", "Unregister"} /\ got.v.upper_bound.some)
              => got.v.upper_bound.v
                    = U32At(wire, AfterContext(got.v) + 4
                                    + ID_byte_size(got.v.subtree))

\* C8: byte order is selected only by bit 4 of the header flags: to_bytes
\* writes every multi-byte integer of header and payload big-endian when the
\* bit is set and little-endian when it is clear, and from_bytes decodes
\* them in the order given by the flags byte of the buffer.
C8_ByteOrderFromFlags ==
    kind \in PDUKinds =>
        /\ Encoded => WrittenInFlagOrder
        /\ got.st = "ok" => ReadInFlagOrder

\* A big-endian GetBulk with a context has been written and read back.
C8_BigEndianGetBulk ==
    /\ kind = "GetBulk" /\ Untouched /\ got.st = "ok"
    /\ NetworkOrderBit(wire[3]) /\ got.v.context.some
    /\ got.v.max_repetitions = 258

(***************************************************************************)
(* C9                                                                      *)
(***************************************************************************)
\* the buffer is a 20-byte header with payload_length = 8 and exactly 8
\* payload bytes, holding an uptime whose tenfold fits a u32 (one that does
\* not is the case of C1) and a valid res_error
BareResponseBuffer ==
    /\ kind = "Response" /\ Len(wire) = HEADER_SIZE + 8
    /\ U32At(wire, 16) = 8
    /\ ~mul10_overflows(U32At(wire, 20))
    /\ ResError_from_bytes(Field(wire, 24, 2),
                           IF NetworkOrderBit(wire[3]) THEN BigEndian
                           ELSE LittleEndian).st = "ok"

\* C9: Response::from_bytes of a header with payload_length = 8 followed by
\* exactly the 8 bytes of sys_uptime, res_error and res_index succeeds with
\* vb absent.
C9_BareResponseHasNoList ==
    (BareResponseBuffer /\ Decoded) => (got.st = "ok" /\ ~got.v.vb.some)

\* Such a buffer has been decoded to a Response that holds a list.
C9_BareResponseGotList ==
    BareResponseBuffer /\ got.st = "ok" /\ got.v.vb.some

(***************************************************************************)
(* C10                                                                     *)
(***************************************************************************)
\* the IDs inside a value of an encoding
IDsOf(k, x) ==
    CASE k = "ID" -> {x}
      [] k = "SearchRange" -> {x.start, x.end}
      [] k = "VarBind" ->
            {x.name} \cup (IF x.data.tag = "ObjectIdentifier"
                           THEN {x.data.val} ELSE {})
      [] OTHER -> {}

\* some ID of x was read from the compact form (prefix byte not 0): it
\* holds five sub-identifiers more than the buffer listed
Expanded(k, x) == \E id \in IDsOf(k, x) : id.orig_n_subid # Len(id.sub_ids)

\* C10 as stated: for every value x of ID, OctetString, Context,
\* SearchRange or VarBind, built by a constructor or returned by from_bytes,
\* the length of to_bytes(x) equals x.byte_size().
C10_SizeConsistency ==
    (kind \in SizedKinds /\ Encoded) => Len(out.v) = byte_size(kind, self)

\* C10 amended: the length of to_bytes(x) equals x.byte_size() for every x
\* built by a constructor, and for every x returned by from_bytes from a
\* buffer in which every ID has prefix byte 0.
C10_SizeConsistencyUnexpanded ==
    (kind \in SizedKinds /\ Encoded
        /\ (origin = "decoded" => ~Expanded(kind, self)))
        => Len(out.v) = byte_size(kind, self)

\* A decoded VarBind holding an OctetString that needs padding has been
\* serialized again.
C10_DecodedVarBindEncoded ==
    /\ kind = "VarBind" /\ origin = "decoded" /\ Encoded
    /\ self.data.tag = "OctetString" /\ Len(self.data.val) % 4 # 0
    /\ ~Expanded(kind, self)

(***************************************************************************)
(* C11                                                                     *)
(***************************************************************************)
\* the explicit form of the identifier that the buffer w holds in the
\* compact form: prefix 0, and 1.3.6.1.p ahead of the sub-identifiers listed
ExplicitForm(w, order) ==
    <<w[1] + 5, 0, w[3], 0>> \o Words(<<1, 3, 6, 1, w[2]>>, order)
        \o SubSeq(w, 5, Len(w))

\* C11: decoding the compact form of an ID (prefix byte p # 0, sub-
\* identifiers S) yields an ID equal to the one decoded from the explicit
\* form (prefix 0, sub-identifiers 1.3.6.1.p then S); and to_bytes of any ID
\* writes prefix byte 0 and the full list of sub-identifiers.
C11_CompactEqualsExplicit ==
    kind = "ID" =>
        /\ (got.st = "ok" /\ wire[2] # 0 /\ wire[1] + 5 <= U8_MAX)
              => LET e == ID_from_bytes(ExplicitForm(wire, bo), bo)
                 IN  e.st = "ok" /\ ID_eq(got.v, e.v)
        /\ out.st # "none"
              => /\ out.st = "ok"
                 /\ out.v = HandID(0, self.include, self.sub_ids, bo)

\* An ID decoded from the compact form has been handed to to_bytes, which
\* wrote nothing: it panicked.
C11_ExpandedIDNotWritten ==
    /\ kind = "ID" /\ origin = "decoded" /\ out.st = "panic"
    /\ self.orig_n_subid + 5 = Len(self.sub_ids)

(***************************************************************************)
(* C12                                                                     *)
(***************************************************************************)
\* C12: every ID obtained through the public interface holds at most 255
\* sub-identifiers, so to_bytes of an ID, or of a value that embeds one,
\* never panics.
C12_AtMost255SubIds ==
    /\ (kind \in SizedKinds /\ origin # "received")
          => \A id \in IDsOf(kind, self) : Len(id.sub_ids) <= U8_MAX
    /\ (kind \in SizedKinds /\ got.st = "ok")
          => \A id \in IDsOf(kind, got.v) : Len(id.sub_ids) <= U8_MAX
    /\ out.st # "panic"

\* VarBind::from_bytes has returned a name of more than 255
\* sub-identifiers, and to_bytes of that VarBind has panicked.
C12_OversizedNamePanicked ==
    /\ kind = "VarBind" /\ origin = "decoded" /\ out.st = "panic"
    /\ Len(self.name.sub_ids) > U8_MAX

(***************************************************************************)
(* C13                                                                     *)
(***************************************************************************)
\* the length of the Register or Unregister p on the wire up to the end of
\* its subtree: header, context, the word of timeout, priority and
\* range_subid, and the ID
UpToSubtree(p) == AfterContext(p) + 4 + 4 + 4 * Len(p.subtree.sub_ids)

\* C13: in Register and Unregister the 4 bytes of upper_bound are on the
\* wire if and only if range_subid # 0: to_bytes writes them exactly then,
\* and from_bytes reads them exactly when the decoded range_subid # 0.
C13_UpperBoundIffRangeSubid ==
    kind \in {"Register", "Unregister"} =>
        /\ Encoded
              => Len(out.v) = UpToSubtree(self)
                                + (IF self.range_subid # 0 THEN 4 ELSE 0)
        /\ got.st = "ok" => (got.v.upper_bound.some <=> got.v.range_subid # 0)

\* A Register with range_subid = 0 has been written with an upper bound
\* after its subtree.
C13_UpperBoundWithoutRange ==
    /\ kind = "Register" /\ origin = "built" /\ Encoded
    /\ self.range_subid = 0 /\ self.upper_bound.some
    /\ Len(out.v) = UpToSubtree(self) + 4
    /\ Field(out.v, UpToSubtree(self), 4)
            = Ordered32(out.v[3], self.upper_bound.v)

(***************************************************************************)
(* C14                                                                     *)
(***************************************************************************)
\* C14: in every Header the codec produces, stamped by a successful PDU
\* to_bytes or returned by Header::from_bytes or a PDU from_bytes,
\* payload_length is 0 or a multiple of 4.
C14_PayloadLengthAligned ==
    /\ (kind \in PDUKinds /\ Encoded) => self.header.payload_length % 4 = 0
    /\ (kind \in PDUKinds /\ got.st = "ok")
          => got.v.header.payload_length % 4 = 0
    /\ (kind = "Header" /\ got.st = "ok") => got.v.payload_length % 4 = 0

\* Header::from_bytes has returned a header whose payload_length is not a
\* multiple of 4, as the buffer of a peer held it.
C14_UnalignedLengthDecoded ==
    /\ kind = "Header" /\ origin = "received" /\ got.st = "ok"
    /\ got.v.payload_length = U32At(wire, 16)
    /\ got.v.payload_length % 4 # 0

(***************************************************************************)
(* C15                                                                     *)
(***************************************************************************)
\* the codes RFC 2741 assigns
TypeCodes == 1..18
ReasonCodes == 1..6
ErrorCodes == {0} \cup (256..268)

\* C15: Type, CloseReason and ResError are closed mappings: a code decodes
\* if and only if it is in the code set of its enumeration (Type 1..18,
\* CloseReason 1..6, ResError 0 and 256..268), and the decoded variant
\* encodes to the same code; every other code is InvalidData, and an unknown
\* type byte in a header makes the decoding of the whole PDU fail.
C15_ClosedEnumerations ==
    /\ (kind = "Header" /\ Decoded /\ Len(wire) >= HEADER_SIZE)
          => /\ got.st = "ok" <=> wire[2] \in TypeCodes
             /\ got.st = "ok" => Type_to_byte(got.v.ty) = wire[2]
             /\ got.st # "ok" => got.st = "err"
    /\ (kind \in PDUKinds /\ Decoded /\ Len(wire) >= 2
            /\ wire[2] \notin TypeCodes)
          => got.st = "err"
    /\ (kind = "Close" /\ Decoded /\ Len(wire) > HEADER_SIZE
            /\ wire[2] \in TypeCodes)
          => /\ got.st = "ok" <=> wire[HEADER_SIZE + 1] \in ReasonCodes
             /\ got.st = "ok"
                   => CloseReason_to_byte(got.v.reason) = wire[HEADER_SIZE + 1]
             /\ got.st # "ok" => got.st = "err"
    /\ (kind = "Response" /\ got.st = "ok")
          => /\ U16At(wire, 24) \in ErrorCodes
             /\ ResError_to_bytes(got.v.res_error, HandOrder(wire[3]))
                    = Field(wire, 24, 2)
    /\ (kind = "Response" /\ origin = "received" /\ Decoded)
          => /\ got.st = "ok" <=> U16At(wire, 24) \in ErrorCodes
             /\ got.st # "ok" => got.st = "err"

\* A Response with error code 1, which lies between the codes 0 and 256,
\* has been refused.
C15_UnknownErrorRefused ==
    /\ kind = "Response" /\ origin = "received" /\ got.st = "err"
    /\ U16At(wire, 24) = 1

(***************************************************************************)
(* C16                                                                     *)
(***************************************************************************)
\* the type code RFC 2741 gives each variant of Value
TagCodes ==
    [Integer |-> 2, OctetString |-> 4, Null |-> 5, ObjectIdentifier |-> 6,
     IpAddress |-> 64, Counter32 |-> 65, Gauge32 |-> 66, TimeTicks |-> 67,
     Opaque |-> 68, Counter64 |-> 70, NoSuchObject |-> 128,
     NoSuchInstance |-> 129, EndOfMibView |-> 130]

KnownTags == {TagCodes[v] : v \in DOMAIN TagCodes}

\* the 16-bit integer at the head of the buffer w
Read16(w, order) ==
    IF order = BigEndian THEN w[1] * 256 + w[2] ELSE w[2] * 256 + w[1]

\* C16: VarBind::to_bytes writes the fixed type code of the variant of its
\* Value, and no payload bytes for Null, NoSuchObject, NoSuchInstance and
\* EndOfMibView; VarBind::from_bytes returns InvalidData for every 16-bit
\* type code outside the set of 13, and the variant of a known code.
C16_ValueTags ==
    kind = "VarBind" =>
        /\ Encoded
              => /\ Field(out.v, 0, 2) = Word16(TagCodes[self.data.tag], bo)
                 /\ self.data.tag \in {"Null", "NoSuchObject",
                                       "NoSuchInstance", "EndOfMibView"}
                       => Len(out.v) = 4 + 4 + 4 * Len(self.name.sub_ids)
        /\ got.st = "ok" => TagCodes[got.v.data.tag] = Read16(wire, bo)
        /\ (Decoded /\ Len(wire) >= 2 /\ Read16(wire, bo) \notin KnownTags)
              => got.st = "err"
        /\ (origin = "received" /\ Decoded /\ Read16(wire, bo) \in KnownTags)
              => got.st = "ok"

\* A VarBind of type code 131, one past EndOfMibView, has been refused.
C16_UnknownTagRefused ==
    /\ kind = "VarBind" /\ origin = "received" /\ got.st = "err"
    /\ Read16(wire, bo) = 131

(***************************************************************************)
(* C17                                                                     *)
(***************************************************************************)
\* the IDs at hand: those of self and those of the decoded value
HeldIDs ==
    IF kind \in {"ID", "SearchRange"}
    THEN (IF origin # "received" THEN IDsOf(kind, self) ELSE {})
            \cup (IF got.st = "ok" THEN IDsOf(kind, got.v) ELSE {})
    ELSE {}

\* s is before t in the lexicographic order of sequences of numbers: at the
\* first index where they differ s has ended or holds the smaller number
LexLess(s, t) ==
    \E i \in 1..Len(t) :
        /\ i <= Len(s) + 1
        /\ \A j \in 1..(i - 1) : s[j] = t[j]
        /\ (i = Len(s) + 1 \/ s[i] < t[i])

\* C17: ==, cmp and hash of ID depend on the sub-identifier sequence only
\* (the include flag does not count); cmp is the lexicographic order over
\* the numeric sub-identifiers, a proper prefix first, and is Equal exactly
\* when == holds.
C17_IDOrder ==
    \A a, b \in HeldIDs :
        /\ ID_eq(a, b) <=> a.sub_ids = b.sub_ids
        /\ a.sub_ids = b.sub_ids => ID_hash(a) = ID_hash(b)
        /\ ID_cmp(a, b) = "Equal" <=> ID_eq(a, b)
        /\ ID_cmp(a, b) = "Less" <=> LexLess(a.sub_ids, b.sub_ids)
        /\ ID_cmp(a, b) = "Greater" <=> LexLess(b.sub_ids, a.sub_ids)
        /\ ID_partial_cmp(a, b) = Some(ID_cmp(a, b))

\* 1.9 and 1.10 have been decoded and compare as Less, and so have 1.9
\* with the include flag and 1.9 without, which are equal.
C17_NineBeforeTen ==
    /\ kind = "SearchRange" /\ got.st = "ok"
    /\ got.v.start.sub_ids = <<1, 9>> /\ got.v.end.sub_ids = <<1, 10>>
    /\ ID_cmp(got.v.start, got.v.end) = "Less"

(***************************************************************************)
(* C18                                                                     *)
(***************************************************************************)
\* C18: for an OctetString of L content bytes and for both byte orders,
\* to_bytes returns 4 + ceil(L/4)*4 bytes: the length field holds L, not the
\* padded length; then come the L content bytes, then zero bytes only; for
\* L = 0 the output is 4 bytes.
C18_PaddingLaw ==
    (kind = "OctetString" /\ out.st # "none") =>
        /\ out.st = "ok"
        /\ Len(out.v) = 4 + ((Len(self) + 3) \div 4) * 4
        /\ Field(out.v, 0, 4) = Word32(Len(self), bo)
        /\ Field(out.v, 4, Len(self)) = self
        /\ \A i \in (4 + Len(self) + 1)..Len(out.v) : out.v[i] = 0
        /\ Len(self) = 0 => Len(out.v) = 4

\* A string of 5 bytes has been written big-endian in 12 bytes.
C18_FiveBytesPadded ==
    /\ kind = "OctetString" /\ Encoded /\ bo = BigEndian
    /\ Len(self) = 5 /\ Len(out.v) = 12
    /\ Field(out.v, 0, 4) = <<0, 0, 0, 5>>

(***************************************************************************)
(* C19                                                                     *)
(***************************************************************************)
\* C19: a VarBind on the wire is, in this order, the 2-byte type, 2
\* reserved zero bytes, the encoded name, then the payload of the value; and
\* VarBind::from_bytes reads the fields in the same order.
C19_VarBindLayout ==
    kind = "VarBind" =>
        /\ Encoded
              => LET name == HandID(0, self.name.include, self.name.sub_ids, bo)
                 IN  /\ Field(out.v, 0, 2) = Word16(TagCodes[self.data.tag], bo)
                     /\ Field(out.v, 2, 2) = <<0, 0>>
                     /\ Field(out.v, 4, Len(name)) = name
                     /\ SubSeq(out.v, 4 + Len(name) + 1, Len(out.v))
                            = varbind_data(self.data, bo).v
        /\ got.st = "ok"
              => LET after == SubSeq(wire, 4 + 4 + 4 * wire[5] + 1, Len(wire))
                 IN  /\ TagCodes[got.v.data.tag] = Read16(wire, bo)
                     /\ ID_from_bytes(SubSeq(wire, 5, Len(wire)), bo)
                            = Ok(got.v.name)
                     /\ varbind_value(Read16(wire, bo), after, bo)
                            = Ok(got.v.data)

\* A VarBind with a Counter64 has been written and read back: 4 bytes of
\* type and reserved, the name, 8 bytes of payload.
C19_Counter64ReadBack ==
    /\ kind = "VarBind" /\ Untouched /\ got.st = "ok"
    /\ got.v.data.tag = "Counter64"
    /\ Field(wire, 2, 2) = <<0, 0>>
    /\ Len(wire) = 4 + ID_byte_size(got.v.name) + 8

(***************************************************************************)
(* C20                                                                     *)
(***************************************************************************)
\* the Duration d is greater than 255 seconds
Exceeds255s(d) == d.secs > 255 \/ (d.secs = 255 /\ d.nanos > 0)

\* C20: to_bytes of an Open or a Register whose timeout is greater than 255
\* seconds (255.5 s included) returns an InvalidData error, and a to_bytes
\* that fails leaves the PDU as it was, payload_length included.
C20_LongTimeoutRefused ==
    [][(kind \in {"Open", "Register"} /\ out.st = "none" /\ out'.st # "none")
          => /\ Exceeds255s(self.timeout) => out'.st = "err"
             /\ out'.st = "err" => self' = self]_vars

\* An Open with a timeout of 255.5 s has been written, with 255 in the
\* timeout byte.
C20_FractionalTimeoutWritten ==
    /\ kind = "Open" /\ origin = "built" /\ Encoded
    /\ self.timeout = Duration_new(255, 500000000)
    /\ out.v[HEADER_SIZE + 1] = 255

(***************************************************************************)
(* C21                                                                     *)
(***************************************************************************)
\* the hundredths of a second in the Duration d, modulo 2^32, for a d below
\* 2 * 2^32 hundredths
CentisModU32(d) ==
    LET rest == d.nanos \div NANOS_PER_CENTI
    IN  IF d.secs > U32_MAX_CENTI_SECS
           \/ (d.secs = U32_MAX_CENTI_SECS /\ rest > U32_MAX_CENTI_REST)
        THEN (d.secs - U32_MAX_CENTI_SECS) * CENTIS_PER_SEC + rest
                 - (U32_MAX_CENTI_REST + 1)
        ELSE d.secs * CENTIS_PER_SEC + rest

\* C21: to_bytes of every Response succeeds, also for an uptime of 2^32
\* hundredths of a second or more, and bytes 20..24 of the buffer hold the
\* uptime in hundredths of a second modulo 2^32, in the header's byte order.
C21_UptimeWraps ==
    (kind = "Response" /\ origin = "built" /\ out.st # "none")
        => /\ out.st = "ok"
           /\ Field(out.v, HEADER_SIZE, 4)
                  = Ordered32(self.header.flags, CentisModU32(self.sys_uptime))

\* to_bytes of a Response with an uptime of 2^32 + 4 hundredths of a second
\* has returned an error.
C21_LongUptimeRefused ==
    /\ kind = "Response" /\ origin = "built" /\ out.st = "err"
    /\ self.sys_uptime = Duration_new(U32_MAX_CENTI_SECS + 1, 0)
    /\ CentisModU32(self.sys_uptime) = 4

(***************************************************************************)
(* C22                                                                     *)
(***************************************************************************)
IsDigit(c) == c \in 48..57

\* the text t has an empty component: a dot at either end or two in a row
EmptyComponent(t) ==
    \/ t[1] = 46 \/ t[Len(t)] = 46
    \/ \E i \in 1..(Len(t) - 1) : t[i] = 46 /\ t[i + 1] = 46

\* "4294967295", u32::MAX in decimal
U32MaxText == <<52, 50, 57, 52, 57, 54, 55, 50, 57, 53>>

\* the ten-digit text d is greater than u32::MAX
AboveU32Max(d) ==
    \E i \in 1..10 : /\ d[i] > U32MaxText[i]
                     /\ \A j \in 1..(i - 1) : d[j] = U32MaxText[j]

\* the text t has a component without leading zeros that names a number
\* above u32::MAX
TooLargeComponent(t) ==
    \E i \in 1..(Len(t) - 9) :
        /\ i = 1 \/ ~IsDigit(t[i - 1])
        /\ t[i] # 48
        /\ \A j \in i..(i + 9) : IsDigit(t[j])
        /\ \/ (i + 10 <= Len(t) /\ IsDigit(t[i + 10]))
           \/ AboveU32Max(SubSeq(t, i, i + 9))

\* the number of components of the non-empty text t
Components(t) == 1 + Cardinality({i \in DOMAIN t : t[i] = 46})

\* the non-empty text t is not a dotted list of at most 255 decimal u32
NotDottedDecimal(t) ==
    \/ \E i \in DOMAIN t : ~IsDigit(t[i]) /\ t[i] # 46
    \/ EmptyComponent(t)
    \/ TooLargeComponent(t)
    \/ Components(t) > U8_MAX

\* C22: from_str(id.to_string()) succeeds and equals id for every ID of at
\* most 255 sub-identifiers; the empty text gives the null ID; a text with a
\* component that is not a decimal u32 (an empty one included) or with more
\* than 255 components makes from_str return an error.
C22_TextualForm ==
    /\ (kind = "IDText" /\ origin # "received" /\ cut = "none" /\ Decoded
            /\ Len(self.sub_ids) <= U8_MAX)
          => (got.st = "ok" /\ ID_eq(got.v, self))
    /\ (kind = "IDText" /\ Decoded /\ wire = <<>>)
          => (got.st = "ok" /\ got.v.sub_ids = <<>>)
    /\ (kind = "IDText" /\ Decoded /\ wire # <<>> /\ NotDottedDecimal(wire))
          => got.st = "err"

\* from_str has turned the text "+1.3" into the ID 1.3.
C22_SignedComponentAccepted ==
    /\ kind = "IDText" /\ origin = "received" /\ got.st = "ok"
    /\ wire = <<43, 49, 46, 51>>
    /\ got.v.sub_ids = <<1, 3>>

(***************************************************************************)
(* C23                                                                     *)
(***************************************************************************)
\* C23: Response::from_header(h) has the session_id, transaction_id and
\* packet_id of h; every other field is that of Response::new(): version 1,
\* type Response, flags 0 (so little-endian, whatever h's byte order),
\* payload_length 0, sys_uptime 0, NoAgentXError, res_index 0, no list.
C23_FromHeaderCopiesIds ==
    [][(origin' = "reply" /\ origin # "reply")
          => /\ self'.header.session_id = got.v.header.session_id
             /\ self'.header.transaction_id = got.v.header.transaction_id
             /\ self'.header.packet_id = got.v.header.packet_id
             /\ self'.header.version = 1
             /\ self'.header.ty = "Response"
             /\ self'.header.flags = 0
             /\ self'.header.payload_length = 0
             /\ Header_byte_order(self'.header) = LittleEndian
             /\ self'.sys_uptime = Duration_new(0, 0)
             /\ self'.res_error = "NoAgentXError"
             /\ self'.res_index = 0
             /\ self'.vb = None]_vars

\* A Response has been made from the header of a big-endian request with a
\* payload and a session id: it is little-endian and has the session id.
C23_ReplyToBigEndianRequest ==
    /\ origin = "reply" /\ out.st = "none"
    /\ Len(wire) > HEADER_SIZE
    /\ NetworkOrderBit(wire[3])
    /\ self.header.flags = 0
    /\ self.header.session_id # 0
    /\ self.header.session_id = U32At(wire, 4)

(***************************************************************************)
(* C24                                                                     *)
(***************************************************************************)
\* C24: when the NON_DEFAULT_CONTEXT flag of an Open header is set, the
\* payload that to_bytes writes has an encoded Context (4 bytes or more)
\* before the timeout byte, the ID and the description; and from_bytes of
\* an Open skips the context, if the flag announces one, before it reads
\* the timeout, the ID and the description.
C24_OpenContext ==
    /\ (kind = "Open" /\ origin = "built" /\ Encoded
            /\ ContextBit(self.header.flags))
          => Len(out.v) >= HEADER_SIZE + 4 + 4 + ID_byte_size(self.id)
                               + OctetString_byte_size(self.descr)
    /\ (kind = "Open" /\ origin = "received" /\ Decoded)
          => /\ got.st = "ok"
             /\ got.v.timeout = Duration_from_secs(5)
             /\ got.v.id.sub_ids \in {<<1, 3>>, <<1, 3, 6, 1, 4, 1, 23>>}
             /\ got.v.descr = <<120>>

\* An Open that a peer sent with the flag and the context "ab" before the
\* timeout byte has been refused.
C24_OpenWithContextRefused ==
    /\ kind = "Open" /\ origin = "received" /\ got.st = "err"
    /\ ContextBit(wire[3])
    /\ Field(wire, HEADER_SIZE, 8) = HandContext(wire[3])
    /\ wire[HEADER_SIZE + 9] = 5

(***************************************************************************)
(* C25                                                                     *)
(***************************************************************************)
CursorKinds ==
    {"SearchRangeList", "VarBindList", "Register", "Open", "AddAgentCaps"}

\* the PDU or list x, the payload_length of its header (if any) set aside
LengthAside(k, x) ==
    IF k \in PDUKinds THEN [x EXCEPT !.header.payload_length = 0] ELSE x

\* what follows the first ID of the buffers of FormPairs, as x holds it
FollowingFields(k, x) ==
    CASE k = "SearchRangeList" ->
            /\ Len(x) = 2
            /\ x[1].end.sub_ids = <<1, 3, 6, 1, 2, 7>>
            /\ x[2].start.sub_ids = <<1, 3, 6, 1, 4, 2>>
            /\ x[2].end.sub_ids = <<>>
      [] k = "VarBindList" ->
            /\ Len(x) = 3
            /\ x[1].data = Value("Integer", 7)
            /\ x[2].name.sub_ids = <<1, 3, 6, 1, 4, 2>>
            /\ x[2].data.tag = "ObjectIdentifier"
            /\ x[2].data.val.sub_ids = <<1, 3, 6, 1, 2, 7>>
            /\ x[3].name.sub_ids = <<1, 3, 6, 1, 4, 3>>
            /\ x[3].data = Value("OctetString", <<120>>)
      [] k = "Register" ->
            /\ x.subtree.sub_ids = <<1, 3, 6, 1, 4, 1, 23>>
            /\ x.upper_bound = Some(9)
      [] k \in {"Open", "AddAgentCaps"} ->
            /\ x.id.sub_ids = <<1, 3, 6, 1, 4, 1, 23>>
            /\ x.descr = <<120>>

\* C25: a SearchRangeList, a VarBindList or a Register, Open or AddAgentCaps
\* payload whose IDs are in the compact form decodes, with every field after
\* an ID read at its offset, to the same values as the buffer that holds the
\* same IDs in the explicit form.
C25_CursorAdvancesByWireSize ==
    \A p \in FormPairs(kind) :
        (kind \in CursorKinds /\ origin = "received" /\ Decoded
            /\ wire = p.compact)
          => /\ got.st = "ok"
             /\ FollowingFields(kind, got.v)
             /\ LET e == from_bytes(kind, p.explicit, bo, "release")
                IN  /\ e.st = "ok"
                    /\ eq(kind, LengthAside(kind, got.v),
                          LengthAside(kind, e.v))

\* A VarBindList of three elements with every ID in the compact form has
\* been decoded.
C25_CompactListDecoded ==
    /\ kind = "VarBindList" /\ origin = "received" /\ got.st = "ok"
    /\ wire = HandVarBindList("compact", bo)
    /\ Len(got.v) = 3
    /\ got.v[1].name.orig_n_subid = 1
    /\ Len(got.v[1].name.sub_ids) = 6

(***************************************************************************)
(* C26                                                                     *)
(***************************************************************************)
\* the first four bytes of w, a u32 in the given order
LengthWord(w, order) ==
    IF order = BigEndian
    THEN ((w[1] * 256 + w[2]) * 256 + w[3]) * 256 + w[4]
    ELSE ((w[4] * 256 + w[3]) * 256 + w[2]) * 256 + w[1]

\* C26: OctetString::from_bytes(b) returns a value if and only if b has at
\* least 4 bytes and either the length word is 0, or b has at least
\* 4 + length bytes of which the length bytes after the word are well-formed
\* UTF-8; the value is the empty string in the first case and those bytes in
\* the second; in every other case it returns an error.
C26_OctetStringDecode ==
    (kind \in {"OctetString", "Context"} /\ Decoded)
        => /\ got.st \in {"ok", "err"}
           /\ got.st = "ok"
                <=> /\ Len(wire) >= 4
                    /\ \/ LengthWord(wire, bo) = 0
                       \/ /\ Len(wire) >= 4 + LengthWord(wire, bo)
                          /\ from_utf8(Field(wire, 4, LengthWord(wire, bo)))
           /\ got.st = "ok"
                => got.v = IF LengthWord(wire, bo) = 0 THEN <<>>
                           ELSE Field(wire, 4, LengthWord(wire, bo))

\* A buffer whose length bytes of content are there but are not UTF-8 has
\* been refused.
C26_MalformedContentRefused ==
    /\ kind = "OctetString" /\ origin = "received" /\ got.st = "err"
    /\ Len(wire) = 8
    /\ LengthWord(wire, bo) = 2
    /\ ~from_utf8(Field(wire, 4, 2))

(***************************************************************************)
(* C27                                                                     *)
(***************************************************************************)
\* c hundredths of a second as a Duration
CentisAsDuration(c) ==
    Duration_new(c \div CENTIS_PER_SEC, (c % CENTIS_PER_SEC) * NANOS_PER_CENTI)

\* C27: a Response that from_bytes does not refuse holds a sys_uptime of
\* exactly ten milliseconds times the 32-bit word at offset 20; and a
\* Response whose sys_uptime is a whole number of hundredths of a second
\* below 2^32 comes back from to_bytes and from_bytes with the same duration.
C27_UptimeExact ==
    /\ (kind = "Response" /\ Decoded /\ got.st # "err")
          => /\ got.st = "ok"
             /\ got.v.sys_uptime = CentisAsDuration(U32At(wire, HEADER_SIZE))
    /\ (kind = "Response" /\ Untouched /\ Decoded
            /\ self.sys_uptime.nanos % NANOS_PER_CENTI = 0)
          => (got.st = "ok" /\ got.v.sys_uptime = self.sys_uptime)

\* A Response written with an uptime of 536870928 hundredths of a second
\* has been decoded, without overflow checks, to another uptime.
C27_UptimeWrapped ==
    /\ kind = "Response" /\ Untouched /\ got.st = "ok"
    /\ self.sys_uptime = CentisAsDuration(536870928)
    /\ U32At(wire, HEADER_SIZE) = 536870928
    /\ got.v.sys_uptime # self.sys_uptime

(***************************************************************************)
(* C28                                                                     *)
(***************************************************************************)
\* C28: every PDU that a variant's from_bytes returns has that variant's
\* type in its header, and a buffer whose type byte is the code of another
\* type is refused.
C28_OwnTypeOnly ==
    (kind \in PDUKinds /\ Decoded)
        => /\ got.st = "ok" => got.v.header.ty = kind
           /\ (Len(wire) >= 2 /\ wire[2] # Type_to_byte(kind))
                 => got.st = "err"

\* CommitSet::from_bytes has returned a CommitSet whose header says Open.
C28_CommitSetOfTypeOpen ==
    /\ kind = "CommitSet" /\ cut = "corrupt" /\ got.st = "ok"
    /\ wire[2] = Type_to_byte("Open")
    /\ got.v.header.ty = "Open"

(***************************************************************************)
(* C29                                                                     *)
(***************************************************************************)
\* C29: a to_bytes of a PDU that returns bytes changes no field of the PDU
\* but header.payload_length; and a second to_bytes on the PDU as the first
\* left it returns the same bytes and leaves the PDU as it is.
C29_ToBytesIdempotent ==
    [][(/\ kind \in PDUKinds /\ origin' = origin /\ out'.st = "ok"
        /\ \/ out.st = "none"
           \/ (cut # "again" /\ cut' = "again"))
          => /\ self' = [self EXCEPT !.header.payload_length =
                                         self'.header.payload_length]
             /\ out.st = "ok" => (out' = out /\ self' = self)]_vars

\* A Get with a context and a range has been serialized a second time.
C29_GetSerializedTwice ==
    /\ kind = "Get" /\ cut = "again" /\ out.st = "ok"
    /\ self.context.some /\ Len(self.sr) > 0
    /\ self.header.payload_length = Len(out.v) - HEADER_SIZE
    /\ wire = out.v

(***************************************************************************)
(* C30                                                                     *)
(***************************************************************************)
\* C30: for every buffer that a PDU's from_bytes was given and every buffer
\* that differs from it in bytes 16..20 only, the same from_bytes refuses
\* both or returns for both PDUs that are equal in every field but
\* header.payload_length.
C30_PayloadLengthIgnored ==
    (kind \in PDUKinds /\ Decoded /\ Len(wire) >= HEADER_SIZE)
        => \A l \in LengthWords, build \in Builds :
              from_bytes(kind, wire, bo, build) = got
                => LET other == from_bytes(kind, WithLengthWord(wire, l),
                                           bo, build)
                   IN  /\ other.st = got.st
                       /\ got.st = "ok"
                            => LengthAside(kind, other.v)
                                   = LengthAside(kind, got.v)

\* A Get with a range has arrived with a payload_length of 0 in its header
\* and has been decoded with its range.
C30_RelabelledGetDecoded ==
    /\ kind = "Get" /\ cut = "relabel" /\ got.st = "ok"
    /\ Len(wire) > HEADER_SIZE
    /\ Field(wire, 16, 4) = <<0, 0, 0, 0>>
    /\ got.v.header.payload_length = 0
    /\ Len(got.v.sr) > 0
    /\ got.v.sr = self.sr

============================================================================
